---- MODULE Spec2Model ----
(***************************************************************************)
(* Model of the vswr cache + revalidation + mutation engine:               *)
(*   src/src/cache.ts          CacheItem, DefaultCache                      *)
(*   src/src/api/revalidate.ts revalidate                                   *)
(*   src/src/api/useSWR.ts     mutate (lines 287-331)                       *)
(*   src/unnamed/part_000      resolveKey, requestData (helpers)            *)
(*   src/src/options.ts        default options                              *)
(*                                                                         *)
(* JavaScript is single threaded: every API call is one atomic action.     *)
(* The continuation that cache.resolve attaches with                       *)
(* Promise.resolve(value.data).then(...) never runs inside the call that   *)
(* attached it: it is a job of the microtask queue (jobs), run by RunJob   *)
(* in FIFO order, as soon as the value it waits for has settled.           *)
(***************************************************************************)
EXTENDS Integers, Sequences, FiniteSets, TLC

VARIABLES
  now,        \* the clock read by new Date()
  elements,   \* DefaultCache.elements: key -> item id (NoItem when absent)
  items,      \* the heap of CacheItem objects: item id -> [data, expiresAt]
  promises,   \* the promises held in CacheItem.data: promise id -> record
  jobs,       \* microtask queue of cache.resolve continuations
  subs,       \* listeners of DefaultCache.event: set of <<key, callback>>
  errSubs,    \* listeners of the errors EventTarget: set of <<key, callback>>
  out,        \* what the last action did: events dispatched, fetcher calls,
              \* value-function calls, the mutate/revalidate call chain
  hist,       \* observer: the latest fetch-issuing revalidate of each key
              \* and the items whose continuation has run
  vue,        \* the binding layer: the options provided to the app by
              \* createSWR and the hook made by useSWR; observer: the key
              \* of the hook was written while a value of it was pending
  second      \* a second DefaultCache instance: its elements, the listeners
              \* of its event target, the continuations of its resolve

vars == <<now, elements, items, promises, jobs, subs, errSubs, out, hist, vue,
          second>>

----------------------------------------------------------------------------
(* Bounds of the model.                                                    *)

MaxCacheSets      == 2   \* cache.set calls in a behaviour of SpecCache
MaxRevalidateSets == 3   \* ... of SpecRevalidate
MaxFetchSets      == 2   \* ... of SpecFetch
MaxMutateSets     == 4   \* ... of SpecMutate
MaxWriteSets      == 3   \* ... of SpecWrite
MaxNotifySets     == 4   \* ... of SpecNotify
MaxClearSets      == 3   \* ... of SpecClear
MaxChannelSets    == 2   \* ... of SpecChannels
MaxKeySets        == 3   \* ... of SpecKey
MaxFailureSets    == 2   \* ... of SpecFailure
MaxSettleSets     == 2   \* ... of SpecSettle
MaxOptionSets     == 3   \* ... of SpecOptions
MaxFocusSets      == 3   \* ... of SpecFocus
MaxInitialSets    == 3   \* ... of SpecInitial
MaxIdentitySets   == 1   \* ... of SpecIdentity
MaxRestSets       == 3   \* ... of SpecRest
MaxDedupSets      == 3   \* ... of SpecDedup
MaxFrameSets      == 2   \* ... of SpecFrame
MaxSilentSets     == 3   \* ... of SpecSilent
MaxTwoCacheSets   == 2   \* ... of SpecTwoCaches, over both instances
MaxWaiting        == 2   \* continuations waiting for an item in SpecIdentity
MaxTime  == 1      \* the clock stops advancing here
MaxValue == 2      \* fetchers and callers produce the values 1..MaxValue
MaxDepth == 4      \* nesting depth at which a mutate/revalidate chain is cut

Keys      == {"k1", "k2"}
Callbacks == {"c1", "c2"}
Intervals == {0, 1}       \* dedupingInterval values used by the callers
Reasons   == {7}          \* fetcher rejection reasons (Error("boom"))

(* Program constants. *)
DefaultDedupingInterval == 2000
DefaultMutateRevalidate == TRUE
DefaultForce            == FALSE
DefaultCacheRemoveBroadcast == FALSE
DefaultClearBroadcast == FALSE
DefaultFocusThrottleInterval == 5000

----------------------------------------------------------------------------
(* Values.  A value of type D | Promise<D> | null | undefined.             *)

Val(n)        == [t |-> "val", v |-> n]
Undefined     == [t |-> "undefined", v |-> 0]
Null          == [t |-> "null", v |-> 0]
PromiseRef(p) == [t |-> "promise", v |-> p]
Reason(e)     == [t |-> "error", v |-> e]

Values    == {Val(n) : n \in 1..MaxValue}
Settled   == Values \cup {Undefined, Null}

IsDefined(d) == d # Undefined /\ d # Null
IsPromise(d) == d.t = "promise"

NoItem    == 0
NullDate  == -1            \* expiresAt === null
NoKey     == "undefined"   \* the key argument undefined
EmptyKey  == ""            \* the falsy string key

(* !key of revalidate.ts:26 and useSWR.ts:293 *)
Truthy(key) == key # NoKey /\ key # EmptyKey

----------------------------------------------------------------------------
(* The mutable state the operations thread through.                        *)

State == [elements |-> elements, event |-> subs, items |-> items,
          promises |-> promises, jobs |-> jobs, out |-> out]

EmptyOut ==
  [events |-> <<>>, fetches |-> <<>>, fnCalls |-> <<>>, trace |-> <<>>,
   writes |-> <<>>, ran |-> <<>>, thrown |-> FALSE]

(* CacheItem constructor: expiresAt defaults to null. *)
CacheItem(data, expiresAt) == [data |-> data, expiresAt |-> expiresAt]

isResolvingAlways(item) == TRUE
isResolvingNever(item) == FALSE
(* CacheItem.isResolving *)
isResolving(item) == IsPromise(item.data)

hasExpiredInclusive(item) == item.expiresAt = NullDate \/ item.expiresAt <= now
hasExpiredNullIsFresh(item) == item.expiresAt # NullDate /\ item.expiresAt < now
(* CacheItem.hasExpired: expiresAt === null || expiresAt < new Date() *)
hasExpired(item) == item.expiresAt = NullDate \/ item.expiresAt < now

expiresInNotApplied(item, milliseconds) == item
expiresInFromEpoch(item, milliseconds) == [item EXCEPT !.expiresAt = milliseconds]
(* CacheItem.expiresIn: expiresAt = new Date() + milliseconds *)
expiresIn(item, milliseconds) == [item EXCEPT !.expiresAt = now + milliseconds]

(* DefaultCache.has / DefaultCache.get *)
has(s, key) == s.elements[key] # NoItem
get(s, key) == s.items[s.elements[key]]

(* new CacheItem(...): allocates the object, returns the new state *)
NewItem(s, item) == [s EXCEPT !.items = Append(@, item)]
LastItem(s)      == Len(s.items)

(* DefaultCache.broadcast / errors.dispatchEvent: one dispatchEvent call,    *)
(* delivered synchronously to every listener registered for the key.  src   *)
(* is the item whose settlement dispatched it (NoItem for remove), present  *)
(* records has(key) at the time of the dispatch.                            *)
Event(chan, key, detail, to, src, present) ==
  [chan |-> chan, key |-> key, detail |-> detail, to |-> to, src |-> src,
   present |-> present]

(* The handlers a hook registers (useSWR.ts:170-173, 183-185). *)
HookData  == "data.value = detail"
HookError == "error.value = detail"
Handlers  == Callbacks \cup {HookData, HookError}

Listeners(set, key) == {c \in Handlers : <<key, c>> \in set}

broadcastFromAnyKey(s, key, detail, src) ==
  [s EXCEPT !.out.events =
     Append(@, Event("data", key, detail,
                     UNION {Listeners(s.event, k) : k \in Keys}, src, has(s, key)))]
broadcastFrom(s, key, detail, src) ==
  [s EXCEPT !.out.events =
     Append(@, Event("data", key, detail, Listeners(s.event, key), src, has(s, key)))]

broadcast(s, key, detail) == broadcastFrom(s, key, detail, NoItem)

dispatchErrorOnDataChannel(s, key, detail) == broadcast(s, key, detail)
dispatchError(s, key, detail) ==
  [s EXCEPT !.out.events =
     Append(@, Event("error", key, detail, Listeners(errSubs, key), NoItem, has(s, key)))]

removeAlwaysBroadcasts(s, key, bcast) ==
  [broadcast(s, key, Undefined) EXCEPT !.elements[key] = NoItem]
removeThenBroadcast(s, key, bcast) ==
  LET s1 == [s EXCEPT !.elements[key] = NoItem]
  IN  IF bcast THEN broadcast(s1, key, Undefined) ELSE s1
removeKeepsEntry(s, key, bcast) ==
  IF bcast THEN broadcast(s, key, Undefined) ELSE s
(* DefaultCache.remove *)
remove(s, key, bcast) ==
  LET s1 == IF bcast THEN broadcast(s, key, Undefined) ELSE s
  IN  [s1 EXCEPT !.elements[key] = NoItem]

(* The keys of the store.  Map.keys() iterates in insertion order, which  *)
(* the model does not record: an iteration is any order of the keys.       *)
StoredKeys(s) == {k \in Keys : has(s, k)}
Orders(S) == {q \in [1..Cardinality(S) -> S] : \A i, j \in DOMAIN q : q[i] = q[j] => i = j}

RECURSIVE broadcastEach(_, _)
(* for (const key of this.elements.keys()) this.broadcast(key, undefined) *)
broadcastEach(s, keys) ==
  IF keys = <<>> THEN s
  ELSE broadcastEach(broadcast(s, Head(keys), Undefined), Tail(keys))

cacheClearThenBroadcast(s, bcast, order) ==
  LET s1 == [s EXCEPT !.elements = [k \in Keys |-> NoItem]]
  IN  IF bcast THEN broadcastEach(s1, SelectSeq(order, LAMBDA k : has(s1, k))) ELSE s1
(* DefaultCache.clear *)
cacheClear(s, bcast, order) ==
  LET s1 == IF bcast THEN broadcastEach(s, order) ELSE s
  IN  [s1 EXCEPT !.elements = [k \in Keys |-> NoItem]]

(* The keys argument of clear: undefined, or a list of keys. *)
KeyList(l) == [t |-> "list", v |-> l]

RECURSIVE removeEach(_, _, _)
(* for (const key of keys) cache.remove(key, { broadcast }) *)
removeEach(s, keys, bcast) ==
  IF keys = <<>> THEN s
  ELSE removeEach(remove(s, Head(keys), bcast), Tail(keys), bcast)

clearIgnoresKeys(s, keys, bcast, order) == cacheClear(s, bcast, order)
(* clear(keys, {broadcast}) (clear.ts:24-28) *)
clear(s, keys, bcast, order) ==
  IF keys.t # "list"
    THEN cacheClear(s, bcast, order)
    ELSE removeEach(s, keys.v, bcast)

(* DefaultCache.resolve: Promise.resolve(value.data).then(continuation).    *)
(* A concrete value is a promise already fulfilled: its continuation goes   *)
(* to the microtask queue at once.  A pending promise keeps it until it     *)
(* settles.  A rejected promise never runs it.                              *)
(* A job is the continuation for (key, item) with the value detail the     *)
(* awaited promise p was fulfilled with (p = 0: the data was concrete).    *)
Job(key, item, detail, p) == [key |-> key, item |-> item, detail |-> detail, p |-> p]

resolveSync(s, key, item) ==
  LET data == s.items[item].data IN
  IF ~IsPromise(data)
    THEN IF IsDefined(data) THEN broadcastFrom(s, key, data, item)
                            ELSE remove(s, key, DefaultCacheRemoveBroadcast)
    ELSE LET p == data.v IN
         CASE s.promises[p].status = "pending" ->
                [s EXCEPT !.promises[p].conts = Append(@, <<key, item>>)]
           [] s.promises[p].status = "fulfilled" ->
                [s EXCEPT !.jobs = Append(@, Job(key, item, s.promises[p].value, p))]
           [] OTHER -> s
resolveOnce(s, key, item) ==
  LET data == s.items[item].data IN
  IF \/ \E n \in 1..Len(s.jobs) : s.jobs[n].item = item
     \/ \E p \in 1..Len(s.promises) :
          \E n \in 1..Len(s.promises[p].conts) : s.promises[p].conts[n][2] = item
    THEN s
  ELSE IF ~IsPromise(data)
    THEN [s EXCEPT !.jobs = Append(@, Job(key, item, data, 0))]
    ELSE LET p == data.v IN
         CASE s.promises[p].status = "pending" ->
                [s EXCEPT !.promises[p].conts = Append(@, <<key, item>>)]
           [] s.promises[p].status = "fulfilled" ->
                [s EXCEPT !.jobs = Append(@, Job(key, item, s.promises[p].value, p))]
           [] OTHER -> s
resolve(s, key, item) ==
  LET data == s.items[item].data IN
  IF ~IsPromise(data)
    THEN [s EXCEPT !.jobs = Append(@, Job(key, item, data, 0))]
    ELSE LET p == data.v IN
         CASE s.promises[p].status = "pending" ->
                [s EXCEPT !.promises[p].conts = Append(@, <<key, item>>)]
           [] s.promises[p].status = "fulfilled" ->
                [s EXCEPT !.jobs = Append(@, Job(key, item, s.promises[p].value, p))]
           [] OTHER -> s

setCopy(s, key, item) ==
  LET s1 == NewItem(s, CacheItem(s.items[item].data, NullDate))
  IN  resolve([s1 EXCEPT !.elements[key] = LastItem(s1)], key, LastItem(s1))
(* DefaultCache.set *)
set(s, key, item) ==
  resolve([s EXCEPT !.elements[key] = item], key, item)

resolveContinuationNoWrite(s, job) ==
  IF job.detail = Undefined \/ job.detail = Null
    THEN remove(s, job.key, DefaultCacheRemoveBroadcast)
    ELSE broadcastFrom(s, job.key, job.detail, job.item)
resolveContinuationDropsExpiry(s, job) ==
  IF job.detail = Undefined \/ job.detail = Null
    THEN remove(s, job.key, DefaultCacheRemoveBroadcast)
    ELSE broadcastFrom([s EXCEPT !.items[job.item] = CacheItem(job.detail, NullDate)],
                       job.key, job.detail, job.item)
resolveContinuationGuarded(s, job) ==
  IF s.elements[job.key] # job.item THEN s
  ELSE IF job.detail = Undefined \/ job.detail = Null
    THEN remove(s, job.key, DefaultCacheRemoveBroadcast)
    ELSE broadcastFrom([s EXCEPT !.items[job.item].data = job.detail,
                                 !.out.writes = Append(@, <<job.item, job.detail>>)],
                       job.key, job.detail, job.item)
resolveContinuationStores(s, job) ==
  IF job.detail = Undefined \/ job.detail = Null
    THEN remove(s, job.key, DefaultCacheRemoveBroadcast)
    ELSE broadcastFrom([s EXCEPT !.items[job.item].data = job.detail,
                                 !.elements[job.key] = job.item,
                                 !.out.writes = Append(@, <<job.item, job.detail>>)],
                       job.key, job.detail, job.item)
(* The continuation of DefaultCache.resolve (cache.ts:150-160). *)
resolveContinuation(s, job) ==
  IF job.detail = Undefined \/ job.detail = Null
    THEN remove(s, job.key, DefaultCacheRemoveBroadcast)
    ELSE broadcastFrom([s EXCEPT !.items[job.item].data = job.detail,
                                 !.out.writes = Append(@, <<job.item, job.detail>>)],
                       job.key, job.detail, job.item)

----------------------------------------------------------------------------
(* helpers (src/unnamed/part_000), revalidate.ts, mutate (useSWR.ts).      *)

(* requestData: calls the fetcher once and returns the promise of the      *)
(* async function, which is pending until the fetcher's promise settles.   *)
Promise(kind, key) ==
  [status |-> "pending", value |-> Undefined, conts |-> <<>>, kind |-> kind,
   key |-> key]

(* The fetcher of a call: an async function, whose promise the environment *)
(* settles, or a function that throws instead of returning a promise.  In  *)
(* the async function requestData the exception thrown by fetcher(key)     *)
(* rejects the promise requestData returns: the .catch is never reached.   *)
FetcherAsync  == "async"
FetcherThrows == "throws"
Fetchers      == {FetcherAsync, FetcherThrows}

requestData(s, key, fetcher) ==
  [s EXCEPT !.out.fetches = Append(@, key),
            !.promises = Append(@, IF fetcher = FetcherThrows
                                     THEN [Promise("fetch", key) EXCEPT !.status = "rejected"]
                                     ELSE Promise("fetch", key))]

LastPromise(s) == Len(s.promises)

(* The value argument of mutate. *)
ItemValue(i) == [t |-> "item", v |-> i]
FnValue(f)   == [t |-> "fn", v |-> f]
FnInc  == 1      \* (prev) => prev + 1
FnSame == 2      \* (prev) => prev
FnThrow == 3     \* (prev) => { throw new Error() }
Fns    == {FnInc, FnSame}

(* Calling a value function: null + 1 is 1 in JavaScript. *)
ApplyFn(f, state) ==
  IF f = FnInc
    THEN IF state = Null THEN Val(1) ELSE Val(state.v + 1)
    ELSE state

(* The value function throws: nothing catches the exception in mutate, it *)
(* leaves mutate before cache.set (useSWR.ts:316).                         *)
valueThrows(s) == [s EXCEPT !.out.thrown = TRUE]

Call(op, key, value, reval, force, depth) ==
  [op |-> op, key |-> key, value |-> value, revalidate |-> reval, force |-> force,
   depth |-> depth]

noKeyFetches(s, key) == requestData(s, key, FetcherAsync)
(* if (!key) return  (revalidate.ts:26, useSWR.ts:293) *)
noKey(s, key) == s

(* The options revalidate passes to mutate (revalidate.ts:54). *)
RevalidateWriteOptionsDefault ==
  [revalidate |-> DefaultMutateRevalidate,
   revalidateOptions |-> [force |-> DefaultForce, fetcher |-> FetcherAsync,
                         dedupingInterval |-> 0]]
RevalidateWriteOptions ==
  [revalidate |-> FALSE,
   revalidateOptions |-> [force |-> DefaultForce, fetcher |-> FetcherAsync,
                         dedupingInterval |-> 0]]

RECURSIVE mutate(_, _, _, _, _)
RECURSIVE revalidate(_, _, _, _)

(* revalidate(key, {force, dedupingInterval}); the fetcher is the          *)
(* environment: FetchSettle decides what its promise settles to.           *)
revalidate(s, key, options, depth) ==
  IF depth > MaxDepth
    THEN [s EXCEPT !.out.trace = Append(@, Call("cut", key, Undefined, FALSE, FALSE, depth))]
  ELSE
    LET s0 == [s EXCEPT !.out.trace =
                 Append(@, Call("revalidate", key, Undefined, FALSE, options.force, depth))]
        doFetch == options.force \/ ~has(s0, key)
                     \/ (has(s0, key) /\ hasExpired(get(s0, key)))
    IN  IF ~Truthy(key) THEN noKey(s0, key)
        ELSE IF doFetch
          THEN LET s1 == requestData(s0, key, options.fetcher)
                   s2 == NewItem(s1, expiresIn(CacheItem(PromiseRef(LastPromise(s1)), NullDate),
                                               options.dedupingInterval))
               IN  mutate(s2, key, ItemValue(LastItem(s2)), RevalidateWriteOptions,
                          depth + 1)
          ELSE s0

(* mutate(key, value, {revalidate, revalidateOptions}) *)
mutate(s, key, value, options, depth) ==
  IF depth > MaxDepth
    THEN [s EXCEPT !.out.trace = Append(@, Call("cut", key, value, FALSE, FALSE, depth))]
  ELSE
    LET s0 == [s EXCEPT !.out.trace =
                 Append(@, Call("mutate", key, value, options.revalidate, FALSE, depth))]
        state == IF has(s0, key) /\ ~isResolving(get(s0, key))
                   THEN get(s0, key).data ELSE Null
        s1 == IF value.t = "fn"
                THEN [s0 EXCEPT !.out.fnCalls =
                        Append(@, [key |-> key, fn |-> value.v, arg |-> state])]
                ELSE s0
        data == IF value.t = "fn" THEN ApplyFn(value.v, state) ELSE value
        s2 == IF data.t = "item" THEN s1 ELSE NewItem(s1, CacheItem(data, NullDate))
        item == IF data.t = "item" THEN data.v ELSE LastItem(s2)
        s3 == set(s2, key, item)
    IN  IF ~Truthy(key) THEN noKey(s0, key)
        ELSE IF value = FnValue(FnThrow) THEN valueThrows(s1)
        ELSE IF options.revalidate
          THEN revalidate(s3, key, options.revalidateOptions, depth + 1)
          ELSE s3

----------------------------------------------------------------------------
(* Keys, options and the hook (helpers, options.ts, useSWR.ts:121-247).    *)

(* A key of type SWRKey: a string, a function that returns a result, or a  *)
(* function that throws (README: dependent fetching).                      *)
KeyString(k)   == [t |-> "string", v |-> k]
KeyFunction(r) == [t |-> "function", v |-> r]
KeyThrows      == [t |-> "throws", v |-> NoKey]

(* What a call gives its caller: a value, or the exception it throws. *)
Return(value) == [thrown |-> FALSE, value |-> value]
Throw         == [thrown |-> TRUE, value |-> NoKey]

resolveKeyNoCatch(key) ==
  IF key.t # "string"
    THEN IF key.t = "throws" THEN Throw ELSE Return(key.v)
    ELSE Return(key.v)
(* resolveKey (part_000:8-17) *)
resolveKey(key) ==
  IF key.t # "string"
    THEN IF key.t = "throws" THEN Return(NoKey) ELSE Return(key.v)
    ELSE Return(key.v)

(* Options objects are functions from the names of the fields they set.    *)
(* {...a, ...b}: every field b sets, and the fields of a that b does not.  *)
Merge(a, b) ==
  [f \in DOMAIN a \cup DOMAIN b |-> IF f \in DOMAIN b THEN b[f] ELSE a[f]]

NoOptions == <<>>

DefaultFetcher == "fetch"      \* options.ts:12

defaultOptions ==
  [fetcher |-> DefaultFetcher, initialData |-> Undefined, revalidateOnMount |-> TRUE,
   dedupingInterval |-> DefaultDedupingInterval, revalidateOnFocus |-> TRUE,
   focusThrottleInterval |-> DefaultFocusThrottleInterval,
   revalidateOnReconnect |-> TRUE]

defaultRevalidateOptions == Merge(defaultOptions, [force |-> DefaultForce])

defaultMutateOptions ==
  [revalidate |-> DefaultMutateRevalidate, revalidateOptions |-> defaultRevalidateOptions]

(* { ...defaults, ...inject(vswr, {}), ...options } *)
resolveOptionsGlobalLast(defaults, provided, options) ==
  Merge(Merge(defaults, options), provided)
resolveOptions(defaults, provided, options) ==
  Merge(Merge(defaults, provided), options)

defaultClearOptions == [broadcast |-> DefaultClearBroadcast]

NullTime == -1      \* lastFocus === null

NoHook ==
  [mounted |-> FALSE, key |-> KeyString(NoKey), options |-> defaultOptions,
   lastFocus |-> NullTime, data |-> Undefined, error |-> Undefined]

----------------------------------------------------------------------------
(* The observer.  hist.last[key] describes the latest call on the key when *)
(* that call was a revalidate that issued a fetch:                         *)
(*   item   the item it wrote (NoItem: the latest call was something else) *)
(*   force  its force option                                               *)
(*   fresh  the store had no entry for the key when it was called          *)
(*   exp    the time of the call + its dedupingInterval                    *)
(*   quiet  since the call no listener of the key was added or removed     *)
(*   alone  since the call no continuation ran for the key                 *)
(* hist.mut[key] describes the latest mutate(key, value, {revalidate:      *)
(* false}) with a literal value or an item of the caller's, as long as no  *)
(* other call on the key followed it but revalidate calls that did not     *)
(* fetch:                                                                  *)
(*   item     the item it stored (NoItem: there is no such mutate)         *)
(*   literal  the value was a literal                                      *)
(*   exp      the expiresAt the caller gave the item (NullDate: literal)   *)
(* hist.ran is the set of items whose continuation has run.                *)

NoLast == [item |-> NoItem, force |-> FALSE, fresh |-> FALSE, exp |-> 0,
           quiet |-> FALSE, alone |-> FALSE]

NoMut == [item |-> NoItem, literal |-> FALSE, exp |-> NullDate]

HistCall(key) ==
  IF key \in Keys THEN [hist EXCEPT !.last[key] = NoLast, !.mut[key] = NoMut] ELSE hist

HistMutate(s, key, value, reval, exp) ==
  IF key \in Keys /\ ~reval /\ value.t # "fn"
    THEN [hist EXCEPT !.last[key] = NoLast,
                      !.mut[key] = [item |-> s.elements[key],
                                    literal |-> value.t # "item", exp |-> exp]]
    ELSE HistCall(key)

HistTouch(key) ==
  IF key \in Keys THEN [hist EXCEPT !.last[key].quiet = FALSE] ELSE hist

HistRan(job) ==
  [hist EXCEPT !.last[job.key].alone = FALSE, !.ran = @ \cup {job.item}]

Fetched(s) == s.out.fetches # <<>>

HistRevalidate(s, key, force, d) ==
  IF key \in Keys /\ Fetched(s)
    THEN [hist EXCEPT !.last[key] =
            [item |-> LastItem(s), force |-> force, fresh |-> elements[key] = NoItem,
             exp |-> now + d, quiet |-> TRUE, alone |-> TRUE],
                      !.mut[key] = NoMut]
    ELSE IF key \in Keys THEN [hist EXCEPT !.last[key] = NoLast] ELSE hist

----------------------------------------------------------------------------
(* Actions.                                                                *)

(* Objects the program can no longer read are unobservable.  The store is  *)
(* the only reader of an item (get), and an item holds the only reference  *)
(* the engine has to its promise: when an action ends, the items that are  *)
(* not stored, and the settled promises no stored item holds, are          *)
(* collected.  What a continuation writes to an item that is not stored    *)
(* any more stays visible in out.writes.                                   *)
LiveItems(s) ==
  ({s.elements[k] : k \in Keys} \cup {second.elements[k] : k \in Keys}) \ {NoItem}

LivePromises(s) ==
  {p \in 1..Len(s.promises) : s.promises[p].status = "pending"}
    \cup {s.items[i].data.v : i \in {j \in LiveItems(s) : IsPromise(s.items[j].data)}}

CollectedItem == CacheItem(Undefined, NullDate)
CollectedPromise(kind) ==
  [status |-> "collected", value |-> Undefined, conts |-> <<>>, kind |-> kind,
   key |-> NoKey]

Collect(s) ==
  [s EXCEPT
     !.items = [i \in 1..Len(s.items) |->
                  IF i \in LiveItems(s) THEN s.items[i] ELSE CollectedItem],
     !.promises = [p \in 1..Len(s.promises) |->
                     IF p \in LivePromises(s) THEN s.promises[p]
                     ELSE CollectedPromise(s.promises[p].kind)]]

Start == [State EXCEPT !.out = EmptyOut]

RECURSIVE handle(_, _)
(* The handlers of the hook run for the events dispatched to them:         *)
(* data.value = detail (useSWR.ts:171), error.value = detail (:184).       *)
handle(hook, events) ==
  IF events = <<>> THEN hook
  ELSE LET e == Head(events)
           h == IF e.chan = "data" /\ HookData \in e.to
                  THEN [hook EXCEPT !.data = e.detail]
                ELSE IF e.chan = "error" /\ HookError \in e.to
                  THEN [hook EXCEPT !.error = e.detail]
                ELSE hook
       IN  handle(h, Tail(events))

ApplyStore(s) ==
  /\ elements' = s.elements
  /\ items' = Collect(s).items
  /\ promises' = Collect(s).promises
  /\ jobs' = s.jobs
  /\ out' = s.out
  /\ second' = second

(* The observer of the hook: this action stores another item under the   *)
(* key of the hook, or removes the key, while a promise stored under the   *)
(* key earlier has not settled.                                            *)
Races(hook, s) ==
  LET k == resolveKey(hook.key).value
  IN  /\ hook.mounted
      /\ k \in Keys
      /\ s.elements[k] # elements[k]
      /\ \E p \in 1..Len(promises) :
           /\ promises[p].status = "pending"
           /\ \E n \in 1..Len(promises[p].conts) : promises[p].conts[n][1] = k

ApplyHook(hook, s) ==
  /\ ApplyStore(s)
  /\ vue' = [vue EXCEPT !.hook = handle(hook, s.out.events),
                        !.raced = @ \/ Races(hook, s)]

Apply(s) == ApplyHook(vue.hook, s)

(* new DefaultCache(): the field initializers run for the instance, which *)
(* gets a Map and an EventTarget of its own (cache.ts:133-142).            *)
DefaultCache == [elements |-> [k \in Keys |-> NoItem], event |-> {}, jobs |-> <<>>]

Init ==
  /\ now = 0
  /\ elements = [k \in Keys |-> NoItem]
  /\ items = <<>>
  /\ promises = <<>>
  /\ jobs = <<>>
  /\ subs = {}
  /\ errSubs = {}
  /\ out = EmptyOut
  /\ hist = [last |-> [k \in Keys |-> NoLast], mut |-> [k \in Keys |-> NoMut],
             ran |-> {}]
  /\ vue = [provided |-> NoOptions, hook |-> NoHook, raced |-> FALSE]
  /\ second = DefaultCache

(* Time passes. *)
Tick ==
  /\ now < MaxTime
  /\ now' = now + 1
  /\ Apply(Start)
  /\ UNCHANGED <<subs, errSubs, hist>>

(* cache.subscribe(key, callback) / cache.unsubscribe(key, callback) *)
Subscribe(key, cb) ==
  /\ <<key, cb>> \notin subs
  /\ subs' = subs \cup {<<key, cb>>}
  /\ Apply(Start)
  /\ hist' = HistTouch(key)
  /\ UNCHANGED <<now, errSubs>>

Unsubscribe(key, cb) ==
  /\ <<key, cb>> \in subs
  /\ subs' = subs \ {<<key, cb>>}
  /\ Apply(Start)
  /\ hist' = HistTouch(key)
  /\ UNCHANGED <<now, errSubs>>

(* errors.addEventListener(key, handler) / errors.removeEventListener *)
SubscribeErrors(key, cb) ==
  /\ <<key, cb>> \notin errSubs
  /\ errSubs' = errSubs \cup {<<key, cb>>}
  /\ Apply(Start)
  /\ UNCHANGED <<now, subs, hist>>

UnsubscribeErrors(key, cb) ==
  /\ <<key, cb>> \in errSubs
  /\ errSubs' = errSubs \ {<<key, cb>>}
  /\ Apply(Start)
  /\ UNCHANGED <<now, subs, hist>>

(* The caller builds new CacheItem({data, expiresAt}); with pending the    *)
(* data is a promise of the caller's that has not settled yet.             *)
UserItem(s, key, pending, data, expiresAt) ==
  IF pending
    THEN LET s1 == [s EXCEPT !.promises = Append(@, Promise("user", key))]
         IN  NewItem(s1, CacheItem(PromiseRef(LastPromise(s1)), expiresAt))
    ELSE NewItem(s, CacheItem(data, expiresAt))

(* A new item is stored by the cache.set call it is made for: Room(limit, n) *)
(* lets a behaviour make n more of them while it has made fewer than    *)
(* limit.                                                               *)
Room(limit, n) == Len(items) + n <= limit

Expirations == {NullDate} \cup {now + d : d \in Intervals}

(* cache.set(key, new CacheItem({data, expiresAt})) *)
CacheSet(key, pending, data, expiresAt) ==
  /\ LET s1 == UserItem(Start, key, pending, data, expiresAt)
     IN  Apply(set(s1, key, LastItem(s1)))
  /\ hist' = HistCall(key)
  /\ UNCHANGED <<now, subs, errSubs>>

(* cache.set(to, cache.get(from)): the item stored under a key is stored   *)
(* again, under that key or another.                                       *)
CacheSetStored(from, to) ==
  /\ has(State, from)
  /\ Apply(set(Start, to, elements[from]))
  /\ hist' = HistCall(to)
  /\ UNCHANGED <<now, subs, errSubs>>

(* The methods of the second instance: this.elements and this.event are   *)
(* its own, the items and the promises are objects of the one heap.  It is *)
(* given concrete values, and its continuations wait in the microtask      *)
(* queue next to those of the first instance.                              *)
thisSharedEvent(cache) ==
  [Start EXCEPT !.elements = cache.elements, !.event = cache.event \cup subs,
                !.jobs = cache.jobs]
this(cache) ==
  [Start EXCEPT !.elements = cache.elements, !.event = cache.event,
                !.jobs = cache.jobs]

SecondApply(s) ==
  /\ second' = [elements |-> s.elements, event |-> second.event, jobs |-> s.jobs]
  /\ items' = s.items
  /\ promises' = s.promises
  /\ out' = s.out
  /\ UNCHANGED <<now, elements, jobs, subs, errSubs, hist, vue>>

SecondSet(key, data) ==
  LET s1 == NewItem(this(second), CacheItem(data, NullDate))
  IN  SecondApply(set(s1, key, LastItem(s1)))

SecondRemove(key, bcast) == SecondApply(remove(this(second), key, bcast))

SecondClear(bcast) ==
  \E order \in Orders(StoredKeys(this(second))) :
    SecondApply(cacheClear(this(second), bcast, order))

SecondSubscribe(key, cb) ==
  /\ <<key, cb>> \notin second.event
  /\ second' = [second EXCEPT !.event = @ \cup {<<key, cb>>}]
  /\ out' = EmptyOut
  /\ UNCHANGED <<now, elements, items, promises, jobs, subs, errSubs, hist, vue>>

SecondBroadcast(key, detail) == SecondApply(broadcast(this(second), key, detail))

SecondRunJob ==
  /\ second.jobs # <<>>
  /\ SecondApply(resolveContinuation([this(second) EXCEPT !.jobs = Tail(second.jobs),
                                                          !.out.ran = <<Head(second.jobs)>>],
                                     Head(second.jobs)))

(* cache.remove(key, {broadcast}) *)
CacheRemove(key, bcast) ==
  /\ Apply(remove(Start, key, bcast))
  /\ hist' = HistCall(key)
  /\ UNCHANGED <<now, subs, errSubs>>

(* clear(keys, {broadcast}) *)
HistClear(keys) ==
  [hist EXCEPT !.last = [k \in Keys |-> IF k \in keys THEN NoLast ELSE @[k]],
               !.mut  = [k \in Keys |-> IF k \in keys THEN NoMut ELSE @[k]]]

Range(l) == {l[i] : i \in DOMAIN l}

ClearCall(keys, bcast) ==
  /\ \E order \in Orders(StoredKeys(State)) : Apply(clear(Start, keys, bcast, order))
  /\ hist' = HistClear(IF keys.t = "list" THEN Range(keys.v) ELSE Keys)
  /\ UNCHANGED <<now, subs, errSubs>>

RevalidateOptions(force, d) ==
  [force |-> force, fetcher |-> FetcherAsync, dedupingInterval |-> d]
MutateOptions(reval, force, d) ==
  [revalidate |-> reval, revalidateOptions |-> RevalidateOptions(force, d)]

AnyKey == Keys \cup {NoKey, EmptyKey}

(* mutate(key, value, {revalidate, revalidateOptions: {force,              *)
(* dedupingInterval}}) with a literal value or a function of the state.    *)
MutateCall(key, value, reval, force, d) ==
  /\ LET s == mutate(Start, key, value, MutateOptions(reval, force, d), 1)
     IN  /\ Apply(s)
         /\ hist' = HistMutate(s, key, value, reval, NullDate)
  /\ UNCHANGED <<now, subs, errSubs>>

(* mutate(key, new CacheItem({data, expiresAt}), options) *)
MutateItemCall(key, pending, data, expiresAt, reval, force, d) ==
  /\ LET s1 == UserItem(Start, key, pending, data, expiresAt)
         s  == mutate(s1, key, ItemValue(LastItem(s1)), MutateOptions(reval, force, d), 1)
     IN  /\ Apply(s)
         /\ hist' = HistMutate(s, key, ItemValue(LastItem(s1)), reval, expiresAt)
  /\ UNCHANGED <<now, subs, errSubs>>

(* revalidate(key, {force, dedupingInterval}) *)
RevalidateCall(key, force, d) ==
  /\ LET s == revalidate(Start, key, RevalidateOptions(force, d), 1)
     IN  /\ Apply(s)
         /\ hist' = HistRevalidate(s, key, force, d)
  /\ UNCHANGED <<now, subs, errSubs>>

(* revalidate(key, {force, fetcher, dedupingInterval}) *)
RevalidateFetcherCall(key, force, fetcher, d) ==
  /\ LET s == revalidate(Start, key, [force |-> force, fetcher |-> fetcher,
                                      dedupingInterval |-> d], 1)
     IN  /\ Apply(s)
         /\ hist' = HistRevalidate(s, key, force, d)
  /\ UNCHANGED <<now, subs, errSubs>>

(* cache.get(key): Map.get, undefined for a key that is absent. *)
CacheGet(key) ==
  /\ Apply([Start EXCEPT !.out.trace =
              <<Call("get", key,
                     IF has(Start, key) THEN ItemValue(elements[key]) ELSE Undefined,
                     FALSE, FALSE, 1)>>])
  /\ UNCHANGED <<now, subs, errSubs, hist>>

(* cache.broadcast(key, detail), called by a client. *)
CacheBroadcast(key, detail) ==
  /\ Apply(broadcast([Start EXCEPT !.out.trace =
                        <<Call("broadcast", key, detail, FALSE, FALSE, 1)>>],
                     key, detail))
  /\ UNCHANGED <<now, subs, errSubs, hist>>

(* A promise settles: the continuations attached to it become jobs. *)
Continuations(s, p, value) ==
  [i \in 1..Len(s.promises[p].conts) |->
     Job(s.promises[p].conts[i][1], s.promises[p].conts[i][2], value, p)]

fulfilJumpsQueue(s, p, value) ==
  [s EXCEPT !.promises[p] = [@ EXCEPT !.status = "fulfilled", !.value = value,
                                      !.conts = <<>>],
            !.jobs = Continuations(s, p, value) \o @]
fulfil(s, p, value) ==
  [s EXCEPT !.promises[p] = [@ EXCEPT !.status = "fulfilled", !.value = value,
                                      !.conts = <<>>],
            !.jobs = @ \o Continuations(s, p, value)]

(* A promise of the caller's is fulfilled with value. *)
UserSettle(p, value) ==
  /\ p \in 1..Len(promises)
  /\ promises[p].kind = "user"
  /\ promises[p].status = "pending"
  /\ Apply(fulfil(Start, p, value))
  /\ UNCHANGED <<now, subs, errSubs, hist>>

(* The promise of a fetcher call settles; requestData (part_000:41-46)     *)
(* turns a rejection into an event of the errors channel and the value     *)
(* undefined.                                                              *)
requestDataRejects(s, p, outcome) ==
  IF outcome.t = "error"
    THEN [dispatchError(s, s.promises[p].key, outcome) EXCEPT
            !.promises[p].status = "rejected", !.promises[p].conts = <<>>]
    ELSE fulfil(s, p, outcome)
requestDataSettled(s, p, outcome) ==
  IF outcome.t = "error"
    THEN fulfil(dispatchError(s, s.promises[p].key, outcome), p, Undefined)
    ELSE fulfil(s, p, outcome)

Outcomes == Settled \cup {Reason(e) : e \in Reasons}

FetchSettle(p, outcome) ==
  /\ p \in 1..Len(promises)
  /\ promises[p].kind = "fetch"
  /\ promises[p].status = "pending"
  /\ Apply(requestDataSettled(Start, p, outcome))
  /\ UNCHANGED <<now, subs, errSubs, hist>>

(* The microtask queue runs the oldest continuation of cache.resolve. *)
RunJob ==
  /\ jobs # <<>>
  /\ Apply(resolveContinuation([Start EXCEPT !.jobs = Tail(jobs),
                                              !.out.ran = <<Head(jobs)>>],
                               Head(jobs)))
  /\ hist' = HistRan(Head(jobs))
  /\ UNCHANGED <<now, subs, errSubs>>

----------------------------------------------------------------------------
(* The hook (useSWR.ts:121-247) and the calls that resolve their options.  *)

(* if (initialData): 0 is a value, and it is not truthy. *)
Zero == Val(0)
IsTruthy(d) == IsDefined(d) /\ d # Zero

(* mutate resolves its options (useSWR.ts:296-303), and the revalidate it  *)
(* calls resolves the revalidateOptions it is given (revalidate.ts:29-36). *)
mutateOptions(options) ==
  LET m == resolveOptions(defaultMutateOptions, vue.provided, options)
  IN  [revalidate |-> m.revalidate,
       revalidateOptions |->
         resolveOptions(defaultRevalidateOptions, vue.provided, m.revalidateOptions)]

revalidateOptions(options) ==
  resolveOptions(defaultRevalidateOptions, vue.provided, options)

(* mutateCurrent (useSWR.ts:146-148) *)
mutateCurrent(s, key, value, options) ==
  LET r == resolveKey(key)
  IN  IF r.thrown THEN [s EXCEPT !.out.thrown = TRUE]
      ELSE mutate(s, r.value, value, mutateOptions(options), 1)

(* revalidateCurrent (useSWR.ts:151-153) *)
revalidateCurrent(s, key, options) ==
  LET r == resolveKey(key)
  IN  IF r.thrown THEN [s EXCEPT !.out.thrown = TRUE]
      ELSE revalidate(s, r.value, revalidateOptions(options), 1)

(* revalidateCurrentWithOptions (useSWR.ts:156-158) *)
revalidateCurrentWithOptions(s, hook) ==
  revalidateCurrent(s, hook.key, [fetcher |-> hook.options.fetcher,
                                  dedupingInterval |-> hook.options.dedupingInterval])

(* The effect stopInitial runs on the store (useSWR.ts:221-236). *)
initial(s, hook) ==
  LET s1 == IF IsTruthy(hook.options.initialData)
              THEN mutateCurrent(s, hook.key, hook.options.initialData,
                                 [revalidate |-> FALSE])
              ELSE s
  IN  IF hook.options.revalidateOnMount THEN revalidateCurrentWithOptions(s1, hook) ELSE s1

(* The value stopInitial reads from the cache (useSWR.ts:227-233). *)
initialRead(s, hook) ==
  LET k == resolveKey(hook.key).value
  IN  IF /\ ~IsTruthy(hook.options.initialData)
         /\ Truthy(k)
         /\ has(s, k)
         /\ ~isResolving(get(s, k))
        THEN get(s, k).data
        ELSE Undefined

(* app.use(createSWR(options)): the options every later call injects. *)
CreateSWR(options) ==
  /\ ~vue.hook.mounted
  /\ vue.provided = NoOptions
  /\ options # NoOptions
  /\ ApplyStore(Start)
  /\ vue' = [vue EXCEPT !.provided = options]
  /\ UNCHANGED <<now, subs, errSubs, hist>>

(* useSWR(key, options): the five watchers run at once ({immediate:       *)
(* true}): the handlers subscribe to the data and to the errors of the     *)
(* resolved key, and stopInitial writes the initial data or reads the      *)
(* cache, and revalidates.                                                 *)
UseSWR(key, options) ==
  /\ ~vue.hook.mounted
  /\ LET k    == resolveKey(key).value
         hook == [mounted |-> TRUE, key |-> key,
                  options |-> resolveOptions(defaultOptions, vue.provided, options),
                  lastFocus |-> NullTime, data |-> Undefined, error |-> Undefined]
     IN  /\ ApplyHook([hook EXCEPT !.data = initialRead(Start, hook)],
                      initial(Start, hook))
         /\ subs' = IF Truthy(k) THEN subs \cup {<<k, HookData>>} ELSE subs
         /\ errSubs' = IF Truthy(k) THEN errSubs \cup {<<k, HookError>>} ELSE errSubs
         /\ hist' = HistCall(k)
  /\ UNCHANGED now

(* The mutate and revalidate of the hook, called by the component. *)
MutateCurrent(value, options) ==
  /\ vue.hook.mounted
  /\ ApplyHook(vue.hook, mutateCurrent(Start, vue.hook.key, value, options))
  /\ hist' = HistCall(resolveKey(vue.hook.key).value)
  /\ UNCHANGED <<now, subs, errSubs>>

RevalidateCurrent(options) ==
  /\ vue.hook.mounted
  /\ ApplyHook(vue.hook, revalidateCurrent(Start, vue.hook.key, options))
  /\ hist' = HistCall(resolveKey(vue.hook.key).value)
  /\ UNCHANGED <<now, subs, errSubs>>

focusAcceptedInclusive(hook) ==
  \/ hook.lastFocus = NullTime
  \/ now - hook.lastFocus >= hook.options.focusThrottleInterval
(* lastFocus === null || now - lastFocus > focusThrottleInterval *)
focusAccepted(hook) ==
  \/ hook.lastFocus = NullTime
  \/ now - hook.lastFocus > hook.options.focusThrottleInterval

(* lastFocus = now, in the accepted branch (useSWR.ts:199) *)
focused(hook) ==
  IF focusAccepted(hook) THEN [hook EXCEPT !.lastFocus = now] ELSE hook

(* The window gets the focus: the handler of stopVisibility runs, if       *)
(* revalidateOnFocus registered one (useSWR.ts:193-207).                   *)
Focus ==
  /\ vue.hook.mounted
  /\ vue.hook.options.revalidateOnFocus
  /\ ApplyHook(focused(vue.hook),
               IF focusAccepted(vue.hook)
                 THEN revalidateCurrentWithOptions(Start, vue.hook)
                 ELSE Start)
  /\ hist' = IF focusAccepted(vue.hook)
               THEN HistCall(resolveKey(vue.hook.key).value) ELSE hist
  /\ UNCHANGED <<now, subs, errSubs>>

(* The browser comes back online (useSWR.ts:210-218). *)
Online ==
  /\ vue.hook.mounted
  /\ vue.hook.options.revalidateOnReconnect
  /\ ApplyHook(vue.hook, revalidateCurrentWithOptions(Start, vue.hook))
  /\ hist' = HistCall(resolveKey(vue.hook.key).value)
  /\ UNCHANGED <<now, subs, errSubs>>

(* clear(keys, options): { ...defaultClearOptions, ...options }, the       *)
(* injected options are not read (clear.ts:25).                            *)
ClearOptionsCall(keys, options) ==
  ClearCall(keys, Merge(defaultClearOptions, options).broadcast)

----------------------------------------------------------------------------
(* Specifications.  Each one is the engine driven by a client that uses    *)
(* a part of the API on the key "k1" (or on no key).                       *)

TheKey == "k1"
OneCallback == {"c1"}

(* The cache store and its broadcast channel: subscribe, unsubscribe,      *)
(* set, remove and the settlement of the promises stored.                  *)
NextCache ==
  \/ \E cb \in Callbacks : Subscribe(TheKey, cb)
  \/ \E cb \in Callbacks : Unsubscribe(TheKey, cb)
  \/ \E pending \in BOOLEAN, data \in Settled :
       /\ Room(MaxCacheSets, 1)
       /\ CacheSet(TheKey, pending, IF pending THEN Undefined ELSE data, NullDate)
  \/ \E bcast \in BOOLEAN : CacheRemove(TheKey, bcast)
  \/ \E p \in 1..Len(promises), value \in Settled : UserSettle(p, value)
  \/ RunJob

SpecCache == Init /\ [][NextCache]_vars

(* The revalidation controller: revalidate calls as time passes, their     *)
(* fetches settling, next to a client that writes a value or removes the   *)
(* key.                                                                    *)
FetchOutcomes == {Val(1), Undefined} \cup {Reason(e) : e \in Reasons}

NextRevalidate ==
  \/ Tick
  \/ \E force \in BOOLEAN, d \in Intervals :
       /\ Room(MaxRevalidateSets, 1)
       /\ RevalidateCall(TheKey, force, d)
  \/ /\ Room(MaxRevalidateSets, 1)
     /\ MutateCall(TheKey, Val(MaxValue), FALSE, FALSE, 0)
  \/ CacheRemove(TheKey, FALSE)
  \/ \E p \in 1..Len(promises), outcome \in FetchOutcomes : FetchSettle(p, outcome)
  \/ RunJob

SpecRevalidate == Init /\ [][NextRevalidate]_vars

(* The fetches of revalidate and the two channels: listeners of the data   *)
(* and of the errors of the key come and go while revalidate calls are     *)
(* made, the key is removed, and the fetches succeed, fail or yield        *)
(* nothing.                                                                *)
NextFetch ==
  \/ Tick
  \/ \E cb \in OneCallback : Subscribe(TheKey, cb)
  \/ \E cb \in OneCallback : Unsubscribe(TheKey, cb)
  \/ \E cb \in OneCallback : SubscribeErrors(TheKey, cb)
  \/ \E cb \in OneCallback : UnsubscribeErrors(TheKey, cb)
  \/ \E d \in Intervals :
       /\ Room(MaxFetchSets, 1)
       /\ RevalidateCall(TheKey, DefaultForce, d)
  \/ CacheRemove(TheKey, DefaultCacheRemoveBroadcast)
  \/ \E p \in 1..Len(promises), outcome \in FetchOutcomes : FetchSettle(p, outcome)
  \/ RunJob

SpecFetch == Init /\ [][NextFetch]_vars

(* Settlement: forced revalidate calls and removals of the key, when every *)
(* fetcher call eventually resolves or rejects and the microtask queue     *)
(* runs the continuations that are ready.                                  *)
NextSettle ==
  \/ /\ Room(MaxSettleSets, 1)
     /\ RevalidateCall(TheKey, TRUE, DefaultDedupingInterval)
  \/ CacheRemove(TheKey, DefaultCacheRemoveBroadcast)
  \/ \E p \in 1..Len(promises), outcome \in FetchOutcomes : FetchSettle(p, outcome)
  \/ RunJob

SpecSettle ==
  /\ Init
  /\ [][NextSettle]_vars
  /\ \A p \in 1..MaxSettleSets :
       WF_vars(\E outcome \in FetchOutcomes : FetchSettle(p, outcome))
  /\ WF_vars(RunJob)

(* Clearing the cache: values are set under two keys, a callback          *)
(* subscribes to each and unsubscribes, and clear is called without keys   *)
(* or with a list of keys, with and without broadcast.                     *)
KeyLists == {<<>>} \cup {<<k>> : k \in Keys} \cup {<<k, l>> : k, l \in Keys}

NextClear ==
  \/ \E key \in Keys, cb \in OneCallback : Subscribe(key, cb)
  \/ \E key \in Keys, cb \in OneCallback : Unsubscribe(key, cb)
  \/ \E key \in Keys :
       /\ Room(MaxClearSets, 1)
       /\ CacheSet(key, FALSE, Val(1), NullDate)
  \/ \E bcast \in BOOLEAN : ClearCall(Undefined, bcast)
  \/ \E list \in KeyLists, bcast \in BOOLEAN : ClearCall(KeyList(list), bcast)
  \/ RunJob

SpecClear == Init /\ [][NextClear]_vars

(* Writes and their subscribers: callbacks subscribe to the key and       *)
(* unsubscribe while mutate writes a literal, with and without            *)
(* revalidation, the fetches resolve and the continuations run.            *)
NextNotify ==
  \/ \E cb \in Callbacks : Subscribe(TheKey, cb)
  \/ \E cb \in Callbacks : Unsubscribe(TheKey, cb)
  \/ \E reval \in BOOLEAN :
       /\ Room(MaxNotifySets, IF reval THEN 2 ELSE 1)
       /\ MutateCall(TheKey, Val(MaxValue), reval, DefaultForce, DefaultDedupingInterval)
  \/ \E p \in 1..Len(promises) : FetchSettle(p, Val(1))
  \/ RunJob

SpecNotify == Init /\ [][NextNotify]_vars

(* Writes next to fetches: mutate with {revalidate: false} of a literal or *)
(* of an item of the caller's with an expiration, and remove, while        *)
(* revalidate calls are made, time passes and the fetches settle.          *)
NextWrite ==
  \/ Tick
  \/ /\ Room(MaxWriteSets, 1)
     /\ MutateCall(TheKey, Val(MaxValue), FALSE, DefaultForce, DefaultDedupingInterval)
  \/ \E expiresAt \in Expirations :
       /\ Room(MaxWriteSets, 1)
       /\ MutateItemCall(TheKey, FALSE, Val(MaxValue), expiresAt, FALSE, DefaultForce,
                         DefaultDedupingInterval)
  \/ \E d \in Intervals :
       /\ Room(MaxWriteSets, 1)
       /\ RevalidateCall(TheKey, DefaultForce, d)
  \/ CacheRemove(TheKey, DefaultCacheRemoveBroadcast)
  \/ \E p \in 1..Len(promises), outcome \in {Val(1), Undefined} : FetchSettle(p, outcome)
  \/ RunJob

SpecWrite == Init /\ [][NextWrite]_vars

(* The two channels: one callback listens to the data of the key, the     *)
(* other to its errors, or both to both, while every operation that        *)
(* dispatches is used: set, mutate, revalidate, remove and clear with      *)
(* broadcast, and the settlement of the fetches, with a value or with a    *)
(* rejection.                                                              *)
NextChannels ==
  \/ \E cb \in Callbacks : Subscribe(TheKey, cb)
  \/ \E cb \in Callbacks : Unsubscribe(TheKey, cb)
  \/ \E cb \in Callbacks : SubscribeErrors(TheKey, cb)
  \/ \E cb \in Callbacks : UnsubscribeErrors(TheKey, cb)
  \/ /\ Room(MaxChannelSets, 1)
     /\ CacheSet(TheKey, FALSE, Val(MaxValue), NullDate)
  \/ /\ Room(MaxChannelSets, 1)
     /\ MutateCall(TheKey, Val(MaxValue), FALSE, DefaultForce, DefaultDedupingInterval)
  \/ /\ Room(MaxChannelSets, 1)
     /\ RevalidateCall(TheKey, DefaultForce, DefaultDedupingInterval)
  \/ CacheRemove(TheKey, TRUE)
  \/ ClearCall(Undefined, TRUE)
  \/ \E p \in 1..Len(promises), outcome \in {Val(1)} \cup {Reason(e) : e \in Reasons} :
       FetchSettle(p, outcome)
  \/ RunJob

SpecChannels == Init /\ [][NextChannels]_vars

(* The mutation controller: mutate with a literal value, a function of    *)
(* the state or an item of the caller's, with the default options or with  *)
(* revalidate switched off, and revalidate, while the fetches settle; and  *)
(* the same calls with a key that resolved to undefined or to the empty    *)
(* string, with the options that would do the most.                        *)
AbsentKeys   == {NoKey, EmptyKey}
MutateValues == {Val(MaxValue), FnValue(FnInc)}

NextMutate ==
  \/ \E value \in MutateValues, reval \in BOOLEAN :
       /\ Room(MaxMutateSets, IF reval THEN 2 ELSE 1)
       /\ MutateCall(TheKey, value, reval, DefaultForce, DefaultDedupingInterval)
  \/ /\ Room(MaxMutateSets, 2)
     /\ MutateItemCall(TheKey, FALSE, Val(1), now + DefaultDedupingInterval,
                       DefaultMutateRevalidate, DefaultForce, DefaultDedupingInterval)
  \/ /\ Room(MaxMutateSets, 1)
     /\ RevalidateCall(TheKey, DefaultForce, DefaultDedupingInterval)
  \/ \E key \in AbsentKeys :
       /\ Room(MaxMutateSets, 2)
       /\ MutateCall(key, FnValue(FnInc), DefaultMutateRevalidate, DefaultForce,
                     DefaultDedupingInterval)
  \/ \E key \in AbsentKeys :
       /\ Room(MaxMutateSets, 1)
       /\ RevalidateCall(key, TRUE, DefaultDedupingInterval)
  \/ \E p \in 1..Len(promises), outcome \in {Val(1), Undefined} : FetchSettle(p, outcome)
  \/ RunJob

SpecMutate == Init /\ [][NextMutate]_vars

(* Key resolution: a hook is made with a key that is a string, a function *)
(* that returns a string, the empty string or undefined, or a function     *)
(* that throws; the component calls its mutate and its revalidate, next to *)
(* a client that sets a value under "k1".                                  *)
KeySpecs ==
  {KeyString(TheKey), KeyString(EmptyKey), KeyThrows}
    \cup {KeyFunction(r) : r \in {TheKey, EmptyKey, NoKey}}

NextKey ==
  \/ \E key \in KeySpecs : UseSWR(key, [revalidateOnMount |-> FALSE])
  \/ /\ Room(MaxKeySets, 1)
     /\ CacheSet(TheKey, FALSE, Val(1), NullDate)
  \/ \E value \in MutateValues, reval \in BOOLEAN :
       /\ Room(MaxKeySets, IF reval THEN 2 ELSE 1)
       /\ MutateCurrent(value, [revalidate |-> reval])
  \/ \E force \in BOOLEAN :
       /\ Room(MaxKeySets, 1)
       /\ RevalidateCurrent([force |-> force])
  \/ \E p \in 1..Len(promises), outcome \in FetchOutcomes : FetchSettle(p, outcome)
  \/ RunJob

SpecKey == Init /\ [][NextKey]_vars

(* Failures: mutate with a literal, a function of the state or a function *)
(* that throws, revalidate with a fetcher that returns a promise or one    *)
(* that throws, with the key "k1" and without a key, and get with a key    *)
(* that is stored or absent, while an error listener comes and goes and    *)
(* the fetches succeed or fail.                                            *)
NextFailure ==
  \/ \E cb \in OneCallback : SubscribeErrors(TheKey, cb)
  \/ \E cb \in OneCallback : UnsubscribeErrors(TheKey, cb)
  \/ \E key \in {TheKey, NoKey}, value \in MutateValues \cup {FnValue(FnThrow)} :
       /\ Room(MaxFailureSets, 1)
       /\ MutateCall(key, value, FALSE, DefaultForce, DefaultDedupingInterval)
  \/ \E key \in {TheKey, NoKey}, fetcher \in Fetchers :
       /\ Room(MaxFailureSets, 1)
       /\ RevalidateFetcherCall(key, DefaultForce, fetcher, DefaultDedupingInterval)
  \/ \E key \in Keys : CacheGet(key)
  \/ \E p \in 1..Len(promises), outcome \in FetchOutcomes : FetchSettle(p, outcome)
  \/ RunJob

SpecFailure == Init /\ [][NextFailure]_vars

(* The broadcast channel: two callbacks subscribe to two keys and         *)
(* unsubscribe, and a client broadcasts values and undefined.              *)
NextBroadcast ==
  \/ \E key \in Keys, cb \in Callbacks : Subscribe(key, cb)
  \/ \E key \in Keys, cb \in Callbacks : Unsubscribe(key, cb)
  \/ \E key \in Keys, detail \in Values \cup {Undefined} : CacheBroadcast(key, detail)

SpecBroadcast == Init /\ [][NextBroadcast]_vars

(* Option resolution: an application that may provide global options,     *)
(* then mounts a hook on "k1" and calls its revalidate and mutate, and     *)
(* clear, with options that set some fields, no field, or the fields the   *)
(* global options set.  createSWR takes a Partial<SWROptions>           *)
(* (createSWR.ts:13): the global options set fields of the hook only.      *)
GlobalOptionSets ==
  {[dedupingInterval |-> 1],
   [fetcher |-> FetcherThrows, revalidateOnMount |-> FALSE]}
HookOptionSets ==
  {NoOptions, [dedupingInterval |-> 0],
   [fetcher |-> FetcherAsync, revalidateOnMount |-> TRUE]}
RevalidateOptionSets ==
  {NoOptions, [force |-> TRUE], [fetcher |-> FetcherAsync, dedupingInterval |-> 0]}
MutateOptionSets ==
  {NoOptions, [revalidate |-> FALSE], [revalidateOptions |-> [force |-> TRUE]]}
ClearOptionSets ==
  {NoOptions, [broadcast |-> TRUE]}

NextOptions ==
  \/ \E options \in GlobalOptionSets : CreateSWR(options)
  \/ \E options \in HookOptionSets :
       /\ Room(MaxOptionSets, 1)
       /\ UseSWR(KeyString(TheKey), options)
  \/ \E options \in RevalidateOptionSets :
       /\ Room(MaxOptionSets, 1)
       /\ RevalidateCurrent(options)
  \/ \E options \in MutateOptionSets :
       /\ Room(MaxOptionSets, 2)
       /\ MutateCurrent(Val(1), options)
  \/ \E options \in ClearOptionSets : ClearOptionsCall(KeyList(<<TheKey>>), options)

SpecOptions == Init /\ [][NextOptions]_vars

(* Focus: a hook mounted on "k1" with a focusThrottleInterval of 0 or 1,  *)
(* the window getting the focus and the browser coming online as time      *)
(* passes, and the fetches settling.                                       *)
FocusOptionSets ==
  {[focusThrottleInterval |-> d] : d \in Intervals}
    \cup {[focusThrottleInterval |-> 1, revalidateOnMount |-> FALSE]}

NextFocus ==
  \/ Tick
  \/ \E options \in FocusOptionSets :
       /\ Room(MaxFocusSets, 1)
       /\ UseSWR(KeyString(TheKey), options)
  \/ /\ Room(MaxFocusSets, 1)
     /\ Focus
  \/ /\ Room(MaxFocusSets, 1)
     /\ Online
  \/ \E p \in 1..Len(promises), outcome \in {Val(1), Undefined} : FetchSettle(p, outcome)
  \/ RunJob

SpecFocus == Init /\ [][NextFocus]_vars

(* Initial data: a hook mounted on "k1" with initialData 1 or 0, with     *)
(* and without revalidateOnMount, on a cache that may hold an entry, and   *)
(* the promises settling.                                                  *)
InitialOptionSets ==
  {[initialData |-> d] : d \in {Val(1), Zero}}
    \cup {[initialData |-> d, revalidateOnMount |-> FALSE] : d \in {Val(1), Zero}}

NextInitial ==
  \/ \E data \in Values, expiresAt \in Expirations :
       /\ Room(MaxInitialSets, 1)
       /\ CacheSet(TheKey, FALSE, data, expiresAt)
  \/ \E options \in InitialOptionSets :
       /\ Room(MaxInitialSets, 2)
       /\ UseSWR(KeyString(TheKey), options)
  \/ \E p \in 1..Len(promises), outcome \in FetchOutcomes : FetchSettle(p, outcome)
  \/ RunJob

SpecInitial == Init /\ [][NextInitial]_vars

(* Item identity: a subscriber of "k1", items stored under "k1", pending  *)
(* or not, the item of "k1" stored again under either key, and the         *)
(* promises settling.                                                      *)
Waiting(js, ps, item) ==
  Cardinality({n \in 1..Len(js) : js[n].item = item})
    + Cardinality(UNION {{<<p, n>> : n \in {m \in 1..Len(ps[p].conts) :
                                              ps[p].conts[m][2] = item}} :
                         p \in 1..Len(ps)})

NextIdentity ==
  \/ \E cb \in OneCallback : Subscribe(TheKey, cb)
  \/ \E pending \in BOOLEAN :
       /\ Room(MaxIdentitySets, 1)
       /\ CacheSet(TheKey, pending, IF pending THEN Undefined ELSE Val(MaxValue), NullDate)
  \/ \E to \in Keys :
       /\ has(State, TheKey)
       /\ Waiting(jobs, promises, elements[TheKey]) < MaxWaiting
       /\ CacheSetStored(TheKey, to)
  \/ \E p \in 1..Len(promises), value \in {Val(1), Undefined} : UserSettle(p, value)
  \/ RunJob

SpecIdentity == Init /\ [][NextIdentity]_vars

(* Two cache instances side by side: "c1" subscribes to "k1" on the first, *)
(* "c2" to "k1" on the second, and values are set, removed, cleared and    *)
(* broadcast under "k1" on each.                                           *)
FirstStep ==
  \/ Subscribe(TheKey, "c1")
  \/ \E pending \in BOOLEAN :
       /\ Room(MaxTwoCacheSets, 1)
       /\ CacheSet(TheKey, pending, IF pending THEN Undefined ELSE Val(1), NullDate)
  \/ \E bcast \in BOOLEAN : CacheRemove(TheKey, bcast)
  \/ \E bcast \in BOOLEAN : ClearCall(Undefined, bcast)
  \/ CacheBroadcast(TheKey, Val(1))
  \/ \E p \in 1..Len(promises) : UserSettle(p, Val(1))
  \/ RunJob

SecondStep ==
  \/ SecondSubscribe(TheKey, "c2")
  \/ /\ Room(MaxTwoCacheSets, 1)
     /\ SecondSet(TheKey, Val(MaxValue))
  \/ \E bcast \in BOOLEAN : SecondRemove(TheKey, bcast)
  \/ \E bcast \in BOOLEAN : SecondClear(bcast)
  \/ SecondBroadcast(TheKey, Val(MaxValue))
  \/ SecondRunJob

NextTwoCaches == FirstStep \/ SecondStep

SpecTwoCaches == Init /\ [][NextTwoCaches]_vars

(* Two keys: the callbacks subscribe first, "c2" to the data and to the    *)
(* errors of "k2" only, and "k2" is given a value; then "k1" is set,       *)
(* mutated, revalidated and removed while the fetches settle, and "k2" is  *)
(* given the item stored under "k1" (cache.set("k2", cache.get("k1"))).    *)
OtherKey == "k2"

OtherStep ==
  \/ /\ items = <<>>
     /\ Subscribe(OtherKey, "c2")
  \/ /\ items = <<>>
     /\ SubscribeErrors(OtherKey, "c2")
  \/ /\ items = <<>>
     /\ CacheSet(OtherKey, FALSE, Val(1), NullDate)
  \/ /\ has(State, TheKey)
     /\ elements[OtherKey] # elements[TheKey]
     /\ CacheSetStored(TheKey, OtherKey)

KeyStep(key) ==
  \/ /\ Room(MaxFrameSets, 1)
     /\ CacheSet(key, FALSE, Val(MaxValue), NullDate)
  \/ /\ Room(MaxFrameSets, 1)
     /\ MutateCall(key, Val(MaxValue), FALSE, DefaultForce, DefaultDedupingInterval)
  \/ /\ Room(MaxFrameSets, 1)
     /\ RevalidateCall(key, DefaultForce, DefaultDedupingInterval)
  \/ CacheRemove(key, TRUE)
  \/ \E p \in 1..Len(promises), outcome \in FetchOutcomes :
       /\ promises[p].key = key
       /\ FetchSettle(p, outcome)
  \/ /\ jobs # <<>>
     /\ Head(jobs).key = key
     /\ RunJob

NextFrame ==
  \/ /\ items = <<>>
     /\ Subscribe(TheKey, "c1")
  \/ OtherStep
  \/ KeyStep(TheKey)
  \/ RunJob

SpecFrame == Init /\ [][NextFrame]_vars

(* Mutations without a value: "c1" subscribes to "k1", and "k1" is        *)
(* mutated, without revalidation, with undefined, with null and with a     *)
(* value.                                                                  *)
NoValues == {Undefined, Null}

NextSilent ==
  \/ Subscribe(TheKey, "c1")
  \/ \E value \in NoValues \cup {Val(MaxValue)} :
       /\ Room(MaxSilentSets, 1)
       /\ MutateCall(TheKey, value, FALSE, DefaultForce, DefaultDedupingInterval)
  \/ RunJob

SpecSilent == Init /\ [][NextSilent]_vars

(* Deduplication alone: the application fixes one dedupingInterval, and    *)
(* the only calls on "k1" are revalidate calls that are not forced, with    *)
(* that interval, while time passes and the fetches settle.                 *)
NextDedup ==
  \/ \E d \in Intervals : CreateSWR([dedupingInterval |-> d])
  \/ /\ vue.provided # NoOptions
     /\ Tick
  \/ /\ vue.provided # NoOptions
     /\ Room(MaxDedupSets, 1)
     /\ RevalidateCall(TheKey, FALSE, vue.provided.dedupingInterval)
  \/ \E p \in 1..Len(promises), outcome \in FetchOutcomes : FetchSettle(p, outcome)
  \/ RunJob

SpecDedup == Init /\ [][NextDedup]_vars

(* A subscriber from the start: a hook is mounted on "k1" while the store *)
(* is empty, without revalidation on mount, and then "k1" is revalidated   *)
(* and mutated with a literal, and the fetches settle.                     *)
NextRest ==
  \/ UseSWR(KeyString(TheKey), [revalidateOnMount |-> FALSE])
  \/ \E force \in BOOLEAN :
       /\ vue.hook.mounted
       /\ Room(MaxRestSets, 1)
       /\ RevalidateCall(TheKey, force, DefaultDedupingInterval)
  \/ \E reval \in BOOLEAN :
       /\ vue.hook.mounted
       /\ Room(MaxRestSets, IF reval THEN 2 ELSE 1)
       /\ MutateCall(TheKey, Val(MaxValue), reval, DefaultForce, DefaultDedupingInterval)
  \/ \E p \in 1..Len(promises), outcome \in FetchOutcomes : FetchSettle(p, outcome)
  \/ RunJob

SpecRest == Init /\ [][NextRest]_vars

----------------------------------------------------------------------------
(* Properties of the cache store (SpecCache).                              *)

(* The continuation that runs in this step, for an item whose data was a   *)
(* pending promise when it was set.                                        *)
SettlesPending == RunJob /\ Head(jobs).p # 0
SettlesDefined == SettlesPending /\ IsDefined(Head(jobs).detail)
SettlesEmpty   == SettlesPending /\ ~IsDefined(Head(jobs).detail)

(* The step dispatched exactly one data event, for the key and with the    *)
(* value of the job, to every callback subscribed to the key.              *)
OneBroadcast(job) ==
  /\ Len(out'.events) = 1
  /\ out'.events[1].chan = "data"
  /\ out'.events[1].key = job.key
  /\ out'.events[1].detail = job.detail
  /\ out'.events[1].to = Listeners(subs, job.key)

(* C1 as stated: when the pending value of an item set under key k settles *)
(* to a defined value v, every callback subscribed to k receives exactly   *)
(* one data event with payload v for that set call, and afterwards         *)
(* get(k).data = v.                                                        *)
C1_Original ==
  [][SettlesDefined =>
       /\ OneBroadcast(Head(jobs))
       /\ Head(jobs).item \notin hist.ran
       /\ elements'[Head(jobs).key] # NoItem
       /\ items'[elements'[Head(jobs).key]].data = Head(jobs).detail]_vars

(* C1 amended: the subscribers receive exactly one data event with payload *)
(* v for that set call, and get(k).data = v afterwards provided the item   *)
(* is still the entry stored under k when its value settles.               *)
C1_SettledValueBroadcastOnce ==
  [][SettlesDefined =>
       /\ OneBroadcast(Head(jobs))
       /\ Head(jobs).item \notin hist.ran
       /\ (elements[Head(jobs).key] = Head(jobs).item =>
             /\ elements'[Head(jobs).key] = Head(jobs).item
             /\ items'[Head(jobs).item].data = Head(jobs).detail)]_vars

(* A pending item, still stored, has settled to a defined value and both   *)
(* callbacks were told.                                                    *)
C1_Witness ==
  /\ out.ran # <<>>
  /\ out.ran[1].p # 0
  /\ IsDefined(out.ran[1].detail)
  /\ elements[out.ran[1].key] = out.ran[1].item
  /\ items[out.ran[1].item].data = out.ran[1].detail
  /\ out.events # <<>>
  /\ out.events[1].to = Callbacks

(* C2: when the pending value of an item set under key k settles to        *)
(* undefined or null, has(k) is false afterwards and the settlement        *)
(* delivers no data event.                                                 *)
C2_EmptySettlementRemoves ==
  [][SettlesEmpty =>
       /\ elements'[Head(jobs).key] = NoItem
       /\ out'.events = <<>>]_vars

(* A pending item settled to null while a callback was subscribed. *)
C2_Witness ==
  /\ out.ran # <<>>
  /\ out.ran[1].p # 0
  /\ out.ran[1].detail = Null
  /\ elements[out.ran[1].key] = NoItem
  /\ Listeners(subs, out.ran[1].key) # {}

(* C15: remove(k, {broadcast: true}) delivers one data event with payload  *)
(* undefined to the subscribers of k while has(k) is what it was before    *)
(* the call (the event precedes the deletion), and has(k) is false when it *)
(* returns; with broadcast false (the default) the entry is deleted and no *)
(* event is delivered.                                                     *)
C15_RemoveBroadcastsBeforeDelete ==
  [][/\ CacheRemove(TheKey, TRUE) =>
          /\ out'.events = <<Event("data", TheKey, Undefined, Listeners(subs, TheKey),
                                   NoItem, elements[TheKey] # NoItem)>>
          /\ elements'[TheKey] = NoItem
     /\ CacheRemove(TheKey, DefaultCacheRemoveBroadcast) =>
          /\ out'.events = <<>>
          /\ elements'[TheKey] = NoItem]_vars

(* remove(k, {broadcast: true}) has just returned: both callbacks were     *)
(* told undefined while the key was still in the store, and it is gone.    *)
C15_Witness ==
  /\ out.events = <<Event("data", TheKey, Undefined, Callbacks, NoItem, TRUE)>>
  /\ elements[TheKey] = NoItem

(* The continuation that runs in this step belongs to an item that was set *)
(* with a pending value and is not the entry stored under its key any      *)
(* more.                                                                   *)
SettlesSuperseded ==
  /\ SettlesPending
  /\ elements[Head(jobs).key] # Head(jobs).item

StoreUntouched ==
  /\ elements' = elements
  /\ \A k \in Keys : elements[k] # NoItem => items'[elements[k]] = items[elements[k]]

(* C19 as stated: if an entry set with a pending value is removed or       *)
(* overwritten by a later set before its value settles, its settlement     *)
(* delivers no data event under the key and does not delete or alter the   *)
(* entry currently stored under the key.  (No continuation has run before: *)
(* the entry was superseded by a call of remove or set.)                   *)
C19_Original ==
  [][(SettlesSuperseded /\ hist.ran = {}) =>
       /\ out'.events = <<>>
       /\ StoreUntouched]_vars

(* C19 amended: the settlement to a defined value v still dispatches one   *)
(* data event with payload v under the key, writes v to the first item     *)
(* only and leaves the store as it is; the settlement to undefined or null *)
(* dispatches nothing and deletes whatever entry is stored under the key.  *)
C19_SupersededSettlement ==
  [][/\ (SettlesSuperseded /\ IsDefined(Head(jobs).detail)) =>
          /\ OneBroadcast(Head(jobs))
          /\ out'.events[1].src = Head(jobs).item
          /\ out'.writes = <<<<Head(jobs).item, Head(jobs).detail>>>>
          /\ StoreUntouched
     /\ (SettlesSuperseded /\ ~IsDefined(Head(jobs).detail)) =>
          /\ out'.events = <<>>
          /\ elements'[Head(jobs).key] = NoItem]_vars

(* The pending value of an item overwritten by a later set has settled to  *)
(* a defined value: both callbacks were told, and the store holds the      *)
(* later item.                                                             *)
C19_Witness ==
  /\ out.ran # <<>>
  /\ out.ran[1].p # 0
  /\ IsDefined(out.ran[1].detail)
  /\ elements[out.ran[1].key] # NoItem
  /\ elements[out.ran[1].key] # out.ran[1].item
  /\ Len(out.events) = 1
  /\ out.events[1].src = out.ran[1].item
  /\ out.events[1].to = Callbacks

----------------------------------------------------------------------------
(* Properties of revalidate (SpecRevalidate).                              *)

(* The step is a call revalidate(key, {force}) by the user. *)
Revalidates(key, force) ==
  /\ out'.trace # <<>>
  /\ out'.trace[1] = Call("revalidate", key, Undefined, FALSE, force, 1)

(* The store entry of the key is absent, or has no expiration, or one      *)
(* strictly before the current time.                                       *)
NoFreshEntry(key) ==
  \/ elements[key] = NoItem
  \/ items[elements[key]].expiresAt = NullDate
  \/ items[elements[key]].expiresAt < now

(* C3: revalidate(k, {force, dedupingInterval}) with a defined key calls   *)
(* the fetcher exactly once if force is true, or the store has no entry    *)
(* for k, or the entry's expiresAt is null or strictly earlier than now,   *)
(* and zero times in every other case.                                     *)
C3_FetchDecision ==
  [][\A force \in BOOLEAN :
       Revalidates(TheKey, force) =>
         out'.fetches = IF force \/ NoFreshEntry(TheKey) THEN <<TheKey>> ELSE <<>>]_vars

(* A forced revalidate fetched although the store had an entry for the key. *)
C3_Witness ==
  /\ out.fetches = <<TheKey>>
  /\ hist.last[TheKey].force
  /\ ~hist.last[TheKey].fresh

(* The fetch issued by the latest call on the key, a revalidate, has not   *)
(* settled.                                                                *)
InFlight(key, item) ==
  \E p \in 1..Len(promises) :
    /\ promises[p].kind = "fetch"
    /\ promises[p].status = "pending"
    /\ \E i \in 1..Len(promises[p].conts) : promises[p].conts[i] = <<key, item>>

FetchPending(key) ==
  /\ hist.last[key].item # NoItem
  /\ InFlight(key, hist.last[key].item)
  /\ now <= hist.last[key].exp

NoStoreWrite ==
  /\ elements' = elements
  /\ items' = items
  /\ promises' = promises
  /\ jobs' = jobs

(* C4 as stated: while the fetch issued by a revalidate(k) has not settled *)
(* and its dedup window has not elapsed, the next call on k, a             *)
(* revalidate(k) with force = false, issues no fetch and writes nothing.   *)
C4_Original ==
  [][(FetchPending(TheKey) /\ Revalidates(TheKey, FALSE)) =>
       (out'.fetches = <<>> /\ NoStoreWrite)]_vars

(* C4 amended: ... and the entry written by the first call is still the    *)
(* one stored under k.                                                     *)
C4_PendingEntryDedups ==
  [][(/\ FetchPending(TheKey)
      /\ elements[TheKey] = hist.last[TheKey].item
      /\ Revalidates(TheKey, FALSE)) =>
       (out'.fetches = <<>> /\ NoStoreWrite)]_vars

(* A revalidate has just returned without fetching while the fetch that    *)
(* wrote the stored entry is in flight.                                    *)
C4_Witness ==
  /\ Len(out.trace) = 1
  /\ out.trace[1].op = "revalidate"
  /\ out.fetches = <<>>
  /\ elements[TheKey] # NoItem
  /\ InFlight(TheKey, elements[TheKey])

(* The latest call on the key was a revalidate with force = false that     *)
(* fetched, less than its dedupingInterval ago.                            *)
CalledWithin(key) ==
  /\ hist.last[key].item # NoItem
  /\ ~hist.last[key].force
  /\ now < hist.last[key].exp

(* C5 as stated, for a first call that fetched: a second revalidate(k)     *)
(* with force = false made less than d after it, with no other call on k   *)
(* in between, issues no fetch (one fetcher invocation in total), whatever *)
(* the outcome of the first fetch.                                         *)
C5_Original ==
  [][(CalledWithin(TheKey) /\ Revalidates(TheKey, FALSE)) =>
       out'.fetches = <<>>]_vars

(* C5 amended: ... provided the entry written by the first call is still   *)
(* stored under k at the second call.                                      *)
C5_StoredEntryDedups ==
  [][(/\ CalledWithin(TheKey)
      /\ elements[TheKey] = hist.last[TheKey].item
      /\ Revalidates(TheKey, FALSE)) =>
       out'.fetches = <<>>]_vars

(* A revalidate has just returned without fetching: the entry holds the    *)
(* value a fetch settled to and has not expired.                           *)
C5_Witness ==
  /\ Len(out.trace) = 1
  /\ out.trace[1].op = "revalidate"
  /\ out.fetches = <<>>
  /\ elements[TheKey] # NoItem
  /\ ~isResolving(items[elements[TheKey]])
  /\ items[elements[TheKey]].expiresAt > now

(* C11: a revalidate(k) that decides not to fetch (force false, entry      *)
(* present and not expired) changes nothing: the entry of k is the same    *)
(* object with the same data and expiresAt, no other key changes, nothing  *)
(* is queued and no data or error event is delivered.                      *)
C11_NoFetchNoEffect ==
  [][(Revalidates(TheKey, FALSE) /\ ~NoFreshEntry(TheKey)) =>
       /\ elements' = elements
       /\ items' = items
       /\ promises' = promises
       /\ jobs' = jobs
       /\ out'.fetches = <<>>
       /\ out'.events = <<>>
       /\ Len(out'.trace) = 1]_vars

(* A revalidate has just returned without fetching on an entry that        *)
(* expires at the current instant.                                         *)
C11_Witness ==
  /\ out.trace = <<Call("revalidate", TheKey, Undefined, FALSE, FALSE, 1)>>
  /\ out.fetches = <<>>
  /\ elements[TheKey] # NoItem
  /\ items[elements[TheKey]].expiresAt = now

----------------------------------------------------------------------------
(* Properties of the fetch of revalidate (SpecFetch).                      *)

(* The continuation the store attached to the promise p of a fetch. *)
FetchJob(p, value) ==
  Job(promises[p].key, promises[p].conts[1][2], value, p)

(* C7: when the fetcher promise of a fetch issued by revalidate(k) rejects *)
(* with reason e, every error listener of k receives exactly one error     *)
(* event with payload e, the promise stored resolves to undefined, and     *)
(* once its continuation has run has(k) is false.                          *)
C7_RejectionPublishedKeyRemoved ==
  [][/\ \A p \in 1..Len(promises), e \in Reasons :
          FetchSettle(p, Reason(e)) =>
            /\ out'.events = <<Event("error", promises[p].key, Reason(e),
                                     Listeners(errSubs, promises[p].key), NoItem,
                                     has(State, promises[p].key))>>
            /\ Len(promises[p].conts) = 1
            /\ jobs' = Append(jobs, FetchJob(p, Undefined))
     /\ (RunJob /\ Head(jobs).p # 0 /\ Head(jobs).detail = Undefined) =>
          (elements'[Head(jobs).key] = NoItem /\ out'.events = <<>>)]_vars

(* A fetch has just been rejected: the error listener of the key was told  *)
(* the reason, and the continuation of the stored promise is queued with   *)
(* undefined.                                                              *)
C7_Witness ==
  /\ Len(out.events) = 1
  /\ out.events[1].chan = "error"
  /\ out.events[1].detail \in {Reason(e) : e \in Reasons}
  /\ out.events[1].to = OneCallback
  /\ jobs # <<>>
  /\ jobs[Len(jobs)].detail = Undefined
  /\ elements[TheKey] = jobs[Len(jobs)].item

(* The continuation that runs in this step belongs to the fetch of the     *)
(* latest call on the key, a revalidate made when the store had no entry   *)
(* for it, no listener of the key having come or gone since; the fetch     *)
(* resolved to a defined value.                                            *)
SettlesFirstFetch ==
  /\ RunJob
  /\ Head(jobs).key = TheKey
  /\ Head(jobs).item = hist.last[TheKey].item
  /\ hist.last[TheKey].fresh
  /\ hist.last[TheKey].quiet
  /\ IsDefined(Head(jobs).detail)

FetchedValueStored ==
  /\ elements'[TheKey] = Head(jobs).item
  /\ items'[Head(jobs).item] = CacheItem(Head(jobs).detail, hist.last[TheKey].exp)
  /\ out'.events = <<Event("data", TheKey, Head(jobs).detail, Listeners(subs, TheKey),
                           Head(jobs).item, TRUE)>>

(* C8 as stated: starting from a store with no entry for k, a revalidate   *)
(* of k with dedupingInterval d whose fetch resolves to a defined value v, *)
(* with no other call on k before the settlement, leaves has(k) true,      *)
(* get(k).data = v, get(k).expiresAt = time of the call + d, and delivers  *)
(* exactly one data event with payload v to the subscribers of k.          *)
C8_Original ==
  [][SettlesFirstFetch => FetchedValueStored]_vars

(* C8 amended: ... and no pending value stored earlier under k settles     *)
(* between the call and the settlement.                                    *)
C8_FirstFetchStored ==
  [][(SettlesFirstFetch /\ hist.last[TheKey].alone) => FetchedValueStored]_vars

(* The fetch of a revalidate made at time 1 on an empty store has settled: *)
(* the value is stored with the expiration of the call and the subscriber  *)
(* was told.                                                               *)
C8_Witness ==
  /\ out.ran # <<>>
  /\ out.ran[1].item = hist.last[TheKey].item
  /\ hist.last[TheKey].fresh
  /\ hist.last[TheKey].quiet
  /\ hist.last[TheKey].exp > 1
  /\ elements[TheKey] = out.ran[1].item
  /\ items[out.ran[1].item] = CacheItem(Val(1), hist.last[TheKey].exp)
  /\ Len(out.events) = 1
  /\ out.events[1].to = OneCallback

----------------------------------------------------------------------------
(* Properties of mutate (SpecMutate).                                      *)

(* C6: a call mutate(k, v, {revalidate: true}) ends after at most three    *)
(* nested calls: mutate calls revalidate once, revalidate calls mutate at  *)
(* most once and with revalidate = false, and that mutate calls nothing;   *)
(* no chain is cut for being too deep.                                     *)
C6_MutateRevalidateTerminates ==
  (/\ out.trace # <<>>
   /\ out.trace[1].op = "mutate"
   /\ Truthy(out.trace[1].key)
   /\ out.trace[1].revalidate) =>
    /\ Len(out.trace) \in {2, 3}
    /\ out.trace[2].op = "revalidate"
    /\ out.trace[2].depth = 2
    /\ Len(out.trace) = 3 =>
         /\ out.trace[3].op = "mutate"
         /\ out.trace[3].depth = 3
         /\ ~out.trace[3].revalidate
         /\ out.fetches = <<out.trace[1].key>>
    /\ \A i \in 1..Len(out.trace) : out.trace[i].op # "cut"

(* mutate(k, f) with revalidate = true has just returned: it called        *)
(* revalidate, which fetched and called mutate with revalidate = false.    *)
C6_Witness ==
  /\ Len(out.trace) = 3
  /\ out.trace[1].op = "mutate"
  /\ out.trace[1].revalidate
  /\ out.trace[1].value = FnValue(FnInc)
  /\ out.trace[3].op = "mutate"
  /\ ~out.trace[3].revalidate

(* The step is a call of mutate or revalidate with a key that is not       *)
(* truthy.                                                                 *)
CallsWithoutKey ==
  /\ out'.trace # <<>>
  /\ ~Truthy(out'.trace[1].key)

(* C9: mutate and revalidate called with an absent key (undefined or the   *)
(* empty string) leave the store unchanged, invoke no fetcher, call no     *)
(* value function and deliver no data or error event.                      *)
C9_AbsentKeyNoEffect ==
  [][CallsWithoutKey =>
       /\ elements' = elements
       /\ items' = items
       /\ promises' = promises
       /\ jobs' = jobs
       /\ Len(out'.trace) = 1
       /\ out'.fetches = <<>>
       /\ out'.fnCalls = <<>>
       /\ out'.events = <<>>]_vars

(* mutate has just been called with the empty key, a function and          *)
(* revalidate = true while the store held a value under "k1".              *)
C9_Witness ==
  /\ out.trace = <<Call("mutate", EmptyKey, FnValue(FnInc), TRUE, FALSE, 1)>>
  /\ out.fnCalls = <<>>
  /\ elements[TheKey] # NoItem
  /\ ~isResolving(items[elements[TheKey]])

(* The previous step was mutate(k, v) with a literal v and the option      *)
(* revalidate = reval, and this step is mutate(k, f) with the same option. *)
MutateThenMutateFn(v, f, reval) ==
  /\ out.trace # <<>>
  /\ out.trace[1] = Call("mutate", TheKey, v, reval, FALSE, 1)
  /\ out'.trace # <<>>
  /\ out'.trace[1] = Call("mutate", TheKey, FnValue(f), reval, FALSE, 1)

(* C10 as stated: after mutate(k, v) followed by mutate(k, f), both with   *)
(* the default options, f was called with v and get(k) yields f(v).        *)
C10_Original ==
  [][\A f \in Fns :
       MutateThenMutateFn(Val(MaxValue), f, DefaultMutateRevalidate) =>
         /\ out'.fnCalls = <<[key |-> TheKey, fn |-> f, arg |-> Val(MaxValue)]>>
         /\ elements'[TheKey] # NoItem
         /\ items'[elements'[TheKey]].data = ApplyFn(f, Val(MaxValue))]_vars

(* C10 amended: ... both with {revalidate: false} ...                      *)
C10_FunctionSeesMutatedValue ==
  [][\A f \in Fns :
       MutateThenMutateFn(Val(MaxValue), f, FALSE) =>
         /\ out'.fnCalls = <<[key |-> TheKey, fn |-> f, arg |-> Val(MaxValue)]>>
         /\ elements'[TheKey] # NoItem
         /\ items'[elements'[TheKey]].data = ApplyFn(f, Val(MaxValue))]_vars

(* mutate(k, prev => prev + 1, {revalidate: false}) has just returned: the *)
(* function was called with the literal a mutate had stored and the store  *)
(* holds the next value.                                                   *)
C10_Witness ==
  /\ out.trace = <<Call("mutate", TheKey, FnValue(FnInc), FALSE, FALSE, 1)>>
  /\ out.fnCalls = <<[key |-> TheKey, fn |-> FnInc, arg |-> Val(MaxValue)]>>
  /\ elements[TheKey] # NoItem
  /\ items[elements[TheKey]].data = Val(MaxValue + 1)

----------------------------------------------------------------------------
(* Properties of writes next to fetches (SpecWrite).                       *)

(* The step is a call mutate(key, value, {revalidate: false}). *)
Mutates(key, value) ==
  /\ out'.trace # <<>>
  /\ out'.trace[1] = Call("mutate", key, value, FALSE, FALSE, 1)

(* C12: a literal written by mutate(k, v, {revalidate: false}) is stored   *)
(* with expiresAt = null, and the next revalidate(k) with force = false    *)
(* issues a fetch, also inside the dedup window of an earlier fetch of k.  *)
C12_LiteralAlwaysStale ==
  [][/\ Mutates(TheKey, Val(MaxValue)) =>
          /\ elements'[TheKey] # NoItem
          /\ elements'[TheKey] # elements[TheKey]
          /\ items'[elements'[TheKey]] = CacheItem(Val(MaxValue), NullDate)
     /\ (/\ hist.mut[TheKey].item # NoItem
         /\ hist.mut[TheKey].literal
         /\ Revalidates(TheKey, FALSE)) =>
          out'.fetches = <<TheKey>>]_vars

(* A revalidate with force = false has just fetched, at the time of an     *)
(* earlier fetch of the key that is still in flight: the entry it found    *)
(* had no expiration.                                                      *)
C12_Witness ==
  /\ now = 0
  /\ Len(out.trace) = 2
  /\ out.trace[1] = Call("revalidate", TheKey, Undefined, FALSE, FALSE, 1)
  /\ out.fetches = <<TheKey>>
  /\ ~hist.last[TheKey].fresh
  /\ \E p \in 1..Len(promises) :
       /\ promises[p].kind = "fetch"
       /\ promises[p].status = "pending"
       /\ promises[p].conts[1][2] # hist.last[TheKey].item

(* mutate(k, item, {revalidate: false}) stores the item it is given, with  *)
(* the expiresAt it was given.                                             *)
StoresGivenItem ==
  \A i \in 1..Len(items') :
    Mutates(TheKey, ItemValue(i)) =>
      /\ i = Len(items) + 1
      /\ elements'[TheKey] = i
      /\ hist'.mut[TheKey].item = i
      /\ items'[i].expiresAt = hist'.mut[TheKey].exp

(* The latest mutate of the key stored an item of the caller's whose       *)
(* expiresAt is in the future.                                             *)
ItemStillFresh(key) ==
  /\ hist.mut[key].item # NoItem
  /\ ~hist.mut[key].literal
  /\ now < hist.mut[key].exp

(* C13 as stated: mutate(k, item, {revalidate: false}) stores that very    *)
(* item with its expiresAt unchanged, and if that expiresAt is in the      *)
(* future every revalidate(k) with force = false made before it passes     *)
(* issues no fetch.                                                        *)
C13_Original ==
  [][/\ StoresGivenItem
     /\ (ItemStillFresh(TheKey) /\ Revalidates(TheKey, FALSE)) =>
          out'.fetches = <<>>]_vars

(* C13 amended: ... issues no fetch as long as the item is still the entry *)
(* stored under k.                                                         *)
C13_StoredItemSuppressesFetch ==
  [][/\ StoresGivenItem
     /\ (/\ ItemStillFresh(TheKey)
         /\ elements[TheKey] = hist.mut[TheKey].item
         /\ Revalidates(TheKey, FALSE)) =>
          out'.fetches = <<>>]_vars

(* A revalidate has just returned without fetching: the entry is the item  *)
(* a mutate was given, not yet expired.                                    *)
C13_Witness ==
  /\ out.trace = <<Call("revalidate", TheKey, Undefined, FALSE, FALSE, 1)>>
  /\ out.fetches = <<>>
  /\ ItemStillFresh(TheKey)
  /\ elements[TheKey] = hist.mut[TheKey].item
  /\ items[elements[TheKey]].expiresAt = hist.mut[TheKey].exp

(* The continuation that runs in this step belongs to a fetch of           *)
(* revalidate that resolved to a defined value, and since the fetch was    *)
(* issued the key was written by mutate(k, v, {revalidate: false}), whose  *)
(* item is the entry stored, or was removed.                               *)
SettlesAfterWrite ==
  /\ RunJob
  /\ Head(jobs).p # 0
  /\ promises[Head(jobs).p].kind = "fetch"
  /\ IsDefined(Head(jobs).detail)
  /\ Head(jobs).key = TheKey
  /\ elements[TheKey] # Head(jobs).item
  /\ \/ elements[TheKey] = NoItem
     \/ elements[TheKey] = hist.mut[TheKey].item

(* C20 as stated: if a fetch of k is in flight, k is then written by       *)
(* mutate(k, v, {revalidate: false}) or removed, and the fetch settles to  *)
(* a defined value w, then after the settlement has(k) is true and         *)
(* get(k).data = w.                                                        *)
C20_Original ==
  [][SettlesAfterWrite =>
       /\ elements'[TheKey] # NoItem
       /\ items'[elements'[TheKey]].data = Head(jobs).detail]_vars

(* C20 amended: ... then the settlement leaves the store as the mutation   *)
(* or the removal left it (get(k).data = v, or has(k) false): w is written *)
(* to the item of the fetch only, and one data event with payload w is     *)
(* dispatched to the subscribers of k.                                     *)
C20_SlowFetchLeavesStore ==
  [][SettlesAfterWrite =>
       /\ elements' = elements
       /\ elements[TheKey] # NoItem =>
            items'[elements[TheKey]] = items[elements[TheKey]]
       /\ out'.writes = <<<<Head(jobs).item, Head(jobs).detail>>>>
       /\ OneBroadcast(Head(jobs))
       /\ out'.events[1].src = Head(jobs).item]_vars

(* The fetch issued before a mutate has settled to 1: the store still      *)
(* holds the literal of the mutate, and the event with 1 was dispatched.   *)
C20_Witness ==
  /\ out.ran # <<>>
  /\ out.ran[1].p # 0
  /\ out.ran[1].detail = Val(1)
  /\ out.writes = <<<<out.ran[1].item, Val(1)>>>>
  /\ elements[TheKey] = hist.mut[TheKey].item
  /\ elements[TheKey] # out.ran[1].item
  /\ hist.mut[TheKey].literal
  /\ items[elements[TheKey]].data = Val(MaxValue)
  /\ Len(out.events) = 1

----------------------------------------------------------------------------
(* Properties of writes and their subscribers (SpecNotify).                *)

(* The step is a call mutate(k, v, options) with the literal v. *)
MutatesLiteral ==
  /\ out'.trace # <<>>
  /\ out'.trace[1].op = "mutate"
  /\ out'.trace[1].depth = 1
  /\ out'.trace[1].key = TheKey
  /\ out'.trace[1].value = Val(MaxValue)

(* C14 as stated: when mutate(k, v) is called with a value v that is not a *)
(* promise, null or undefined, every callback subscribed to k has been     *)
(* invoked with payload v when mutate returns.                             *)
C14_Original ==
  [][MutatesLiteral =>
       \E i \in 1..Len(out'.events) :
         /\ out'.events[i].chan = "data"
         /\ out'.events[i].key = TheKey
         /\ out'.events[i].detail = Val(MaxValue)
         /\ out'.events[i].to = Listeners(subs, TheKey)]_vars

(* C14 amended: when mutate returns no callback has been invoked; the      *)
(* write has queued one continuation, and when that continuation runs      *)
(* every callback subscribed to k at that moment is invoked once with      *)
(* payload v.                                                              *)
C14_BroadcastAfterReturn ==
  [][/\ MutatesLiteral =>
          /\ out'.events = <<>>
          /\ jobs' = Append(jobs, Job(TheKey, Len(items) + 1, Val(MaxValue), 0))
     /\ (RunJob /\ Head(jobs).p = 0 /\ IsDefined(Head(jobs).detail)) =>
          /\ OneBroadcast(Head(jobs))
          /\ out'.events[1].src = Head(jobs).item]_vars

(* The continuation of a literal write has just run: both callbacks,       *)
(* subscribed to the key, were invoked with the literal.                   *)
C14_Witness ==
  /\ out.ran # <<>>
  /\ out.ran[1].p = 0
  /\ out.ran[1].detail = Val(MaxValue)
  /\ Len(out.events) = 1
  /\ out.events[1].detail = Val(MaxValue)
  /\ out.events[1].to = Callbacks

----------------------------------------------------------------------------
(* Properties of clear (SpecClear).                                        *)

(* The events the step dispatched for the key. *)
EventsOf(key) == {i \in 1..Len(out'.events) : out'.events[i].key = key}

(* The step dispatched one event for the key: a data event with payload    *)
(* undefined, to the callbacks subscribed to the key.                      *)
OneUndefinedEvent(key) ==
  /\ Cardinality(EventsOf(key)) = 1
  /\ \A i \in EventsOf(key) :
       /\ out'.events[i].chan = "data"
       /\ out'.events[i].detail = Undefined
       /\ out'.events[i].to = Listeners(subs, key)

(* C16: clear() without keys leaves the store empty; with broadcast true   *)
(* it delivers, before any entry is deleted, exactly one data event with   *)
(* payload undefined per key that was in the store and none for the other  *)
(* keys; with broadcast false it delivers no event.                        *)
C16_ClearAll ==
  [][/\ ClearCall(Undefined, TRUE) =>
          /\ \A k \in Keys : elements'[k] = NoItem
          /\ \A k \in Keys : IF elements[k] # NoItem THEN OneUndefinedEvent(k)
                                                    ELSE EventsOf(k) = {}
          /\ \A i \in 1..Len(out'.events) : out'.events[i].present
     /\ ClearCall(Undefined, DefaultClearBroadcast) =>
          /\ \A k \in Keys : elements'[k] = NoItem
          /\ out'.events = <<>>]_vars

(* clear(undefined, {broadcast: true}) has just returned on a store that   *)
(* held both keys: each subscriber was told undefined once.                *)
C16_Witness ==
  /\ Len(out.events) = 2
  /\ out.events[1].key # out.events[2].key
  /\ \A i \in 1..2 : /\ out.events[i].detail = Undefined
                     /\ out.events[i].present
                     /\ out.events[i].to = OneCallback
  /\ \A k \in Keys : elements[k] = NoItem

(* C17: clear(keys) with a list of keys removes exactly the listed keys:   *)
(* has(k) is false for every listed k, and every other key keeps its entry *)
(* (same data, same expiresAt) and its subscribers receive no event.       *)
C17_ClearListedKeys ==
  [][\A list \in KeyLists, bcast \in BOOLEAN :
       ClearCall(KeyList(list), bcast) =>
         /\ \A k \in Range(list) : elements'[k] = NoItem
         /\ \A k \in Keys \ Range(list) :
              /\ elements'[k] = elements[k]
              /\ elements[k] # NoItem => items'[elements[k]] = items[elements[k]]
              /\ EventsOf(k) = {}]_vars

(* clear(["k1"], {broadcast: true}) has just returned: "k1" is gone, its   *)
(* subscriber was told, and "k2" still holds its value.                    *)
C17_Witness ==
  /\ Len(out.events) = 1
  /\ out.events[1].key = TheKey
  /\ out.events[1].detail = Undefined
  /\ out.events[1].to = OneCallback
  /\ elements[TheKey] = NoItem
  /\ elements["k2"] # NoItem
  /\ items[elements["k2"]].data = Val(1)
  /\ Listeners(subs, "k2") # {}

----------------------------------------------------------------------------
(* Properties of the two channels (SpecChannels).                          *)

(* The step is the rejection of the fetcher promise of a fetch. *)
FetchRejects == \E p \in 1..Len(promises), e \in Reasons : FetchSettle(p, Reason(e))

(* C21: the data channel and the error channel are independent: a data     *)
(* event goes to the callbacks subscribed to the data of its key and never *)
(* carries a rejection reason; an error event goes to the error listeners  *)
(* of its key, carries the reason the fetcher promise was rejected with    *)
(* and is dispatched by that rejection only, which dispatches nothing on   *)
(* the data channel; set, mutate, remove, clear and the settlement         *)
(* continuations dispatch no error event.                                  *)
C21_ChannelsIndependent ==
  [][/\ \A i \in 1..Len(out'.events) :
          /\ out'.events[i].chan = "data" =>
               /\ out'.events[i].to = Listeners(subs, out'.events[i].key)
               /\ out'.events[i].detail.t # "error"
          /\ out'.events[i].chan = "error" =>
               /\ out'.events[i].to = Listeners(errSubs, out'.events[i].key)
               /\ \E p \in 1..Len(promises), e \in Reasons :
                    /\ FetchSettle(p, Reason(e))
                    /\ out'.events[i].detail = Reason(e)
                    /\ out'.events[i].key = promises[p].key
     /\ FetchRejects =>
          /\ Len(out'.events) = 1
          /\ out'.events[1].chan = "error"
     /\ (out'.trace # <<>> \/ out'.ran # <<>>) =>
          \A i \in 1..Len(out'.events) : out'.events[i].chan = "data"]_vars

(* A fetch has just been rejected while "c1" listened to the data of the   *)
(* key only and "c2" to its errors only: "c2" alone was told.              *)
C21_Witness ==
  /\ Len(out.events) = 1
  /\ out.events[1].chan = "error"
  /\ out.events[1].to = {"c2"}
  /\ Listeners(subs, TheKey) = {"c1"}
  /\ Listeners(errSubs, TheKey) = {"c2"}

----------------------------------------------------------------------------
(* Properties of key resolution (SpecKey).                                 *)

(* What the key of the hook resolves to: the string itself, the result of  *)
(* the function, undefined when the function throws.                       *)
Resolved(key) ==
  CASE key.t = "string"   -> key.v
    [] key.t = "function" -> key.v
    [] key.t = "throws"   -> NoKey

(* C22: the mutate and the revalidate of a hook pass mutate and revalidate *)
(* the string key unchanged, the result of a function key, and undefined   *)
(* when the function key throws; no call throws and no call dispatches an  *)
(* event; with a key that resolved to undefined or to the empty string the *)
(* call does nothing.                                                      *)
C22_KeyResolution ==
  [][/\ ~out'.thrown
     /\ (vue.hook.mounted /\ out'.trace # <<>> /\ Resolved(vue.hook.key) # TheKey) =>
          /\ out'.trace[1].key = Resolved(vue.hook.key)
          /\ Len(out'.trace) = 1
          /\ elements' = elements
          /\ items' = items
          /\ promises' = promises
          /\ jobs' = jobs
          /\ out'.fetches = <<>>
          /\ out'.fnCalls = <<>>
          /\ out'.events = <<>>
     /\ (vue.hook.mounted /\ out'.trace # <<>> /\ Resolved(vue.hook.key) = TheKey) =>
          /\ out'.trace[1].key = TheKey
          /\ out'.events = <<>>
          /\ elements'[TheKey] # NoItem]_vars

(* The mutate of a hook whose key is a function that throws has just been  *)
(* called with a function of the state and revalidate = true, while the    *)
(* store held a value under "k1": nothing was thrown, called or changed.   *)
C22_Witness ==
  /\ vue.hook.mounted
  /\ vue.hook.key = KeyThrows
  /\ out.trace = <<Call("mutate", NoKey, FnValue(FnInc), TRUE, FALSE, 1)>>
  /\ ~out.thrown
  /\ out.fnCalls = <<>>
  /\ elements[TheKey] # NoItem

----------------------------------------------------------------------------
(* Properties of failures (SpecFailure).                                   *)

(* The step called a fetcher that threw instead of returning a promise. *)
FetcherThrew ==
  /\ Len(promises') = Len(promises) + 1
  /\ promises'[Len(promises')].status = "rejected"

(* C23: no call of mutate, revalidate or get throws to its caller, with    *)
(* any key, value (a throwing function of the state included) and fetcher  *)
(* (a throwing one included); a failure is an event of the errors channel  *)
(* or a call that did nothing.                                             *)
C23_NeverThrows ==
  [][/\ ~out'.thrown
     /\ FetcherThrew =>
          \/ \E i \in 1..Len(out'.events) : out'.events[i].chan = "error"
          \/ elements' = elements /\ items' = items /\ jobs' = jobs]_vars

----------------------------------------------------------------------------
(* Properties of settlement (SpecSettle).                                  *)

(* Item i is a store entry whose data is pending. *)
StoredPending(i) ==
  /\ i <= Len(items)
  /\ \E k \in Keys : elements[k] = i
  /\ isResolving(items[i])

(* The fetch of item i has yielded nothing (it failed, or resolved to      *)
(* undefined), and its continuation has not run yet.                       *)
FetchedNothing(i) ==
  \E n \in 1..Len(jobs) :
    /\ jobs[n].item = i
    /\ jobs[n].p # 0
    /\ ~IsDefined(jobs[n].detail)

(* C24: when every fetcher call eventually resolves or rejects, no entry   *)
(* written by revalidate stays pending for ever: it is eventually replaced *)
(* in place by a concrete value, or it is no longer the entry of its key;  *)
(* and the continuation of a fetch that failed eventually runs, and when   *)
(* it has run the key is not in the store.                                 *)
C24_NoEntryStaysPending ==
  /\ \A i \in 1..MaxSettleSets : []<>(~StoredPending(i))
  /\ \A i \in 1..MaxSettleSets : []<>(~FetchedNothing(i))
  /\ [][\A i \in 1..MaxSettleSets :
          (FetchedNothing(i) /\ ~FetchedNothing(i)') =>
            (RunJob /\ elements'[Head(jobs).key] = NoItem)]_vars

(* The continuation of the latest fetch, which yielded nothing, has run    *)
(* while the fetch of an earlier revalidate is still in flight: the key is *)
(* not in the store.                                                       *)
C24_Witness ==
  /\ out.ran # <<>>
  /\ out.ran[1].item = hist.last[TheKey].item
  /\ out.ran[1].detail = Undefined
  /\ hist.last[TheKey].alone = FALSE
  /\ elements[TheKey] = NoItem
  /\ \E p \in 1..Len(promises) : promises[p].status = "pending"

----------------------------------------------------------------------------
(* Properties of the broadcast channel (SpecBroadcast).                    *)

(* C25: broadcast(k, value) dispatches one event that reaches, within the  *)
(* call, exactly the callbacks subscribed to k and not unsubscribed since, *)
(* each once, and no callback subscribed to another key only; with no      *)
(* subscriber of k it reaches nobody and does not throw.                   *)
C25_BroadcastReachesSubscribers ==
  [][\A key \in Keys :
       (out'.trace # <<>> /\ out'.trace[1].op = "broadcast" /\ out'.trace[1].key = key) =>
         /\ Len(out'.events) = 1
         /\ out'.events[1].chan = "data"
         /\ out'.events[1].key = key
         /\ out'.events[1].detail = out'.trace[1].value
         /\ \A cb \in Callbacks : cb \in out'.events[1].to <=> <<key, cb>> \in subs
         /\ ~out'.thrown
         /\ elements' = elements]_vars

(* broadcast("k1", v) has just returned: "c1", subscribed to "k1", was     *)
(* told; "c2", subscribed to "k2" only, was not.                           *)
C25_Witness ==
  /\ out.trace # <<>>
  /\ out.trace[1].op = "broadcast"
  /\ Len(out.events) = 1
  /\ out.events[1].key = "k1"
  /\ out.events[1].to = {"c1"}
  /\ <<"k2", "c2">> \in subs
  /\ <<"k1", "c2">> \notin subs

----------------------------------------------------------------------------
(* Properties of option resolution (SpecOptions).                          *)

(* The value precedence gives a field: the call site's if the call site    *)
(* sets the field, else the global one if the global options set it, else  *)
(* the built-in default.                                                   *)
Precedence(f, options, defaults) ==
  IF f \in DOMAIN options THEN options[f]
  ELSE IF f \in DOMAIN vue.provided THEN vue.provided[f]
  ELSE defaults[f]

BuiltIn ==
  [fetcher |-> DefaultFetcher, initialData |-> Undefined, revalidateOnMount |-> TRUE,
   dedupingInterval |-> 2000, revalidateOnFocus |-> TRUE,
   focusThrottleInterval |-> 5000, revalidateOnReconnect |-> TRUE,
   force |-> FALSE, revalidate |-> TRUE, broadcast |-> FALSE]

FetchedOnce == Len(out'.fetches) = 1
FetchedWith(fetcher, d) ==
  /\ (promises'[Len(promises')].status = "rejected") <=> (fetcher = FetcherThrows)
  /\ items'[elements'[TheKey]].expiresAt = now + d

----------------------------------------------------------------------------
(* Properties of the focus throttle (SpecFocus).                           *)

(* vue.hook.lastFocus is the time of the last focus event that was         *)
(* accepted, NullTime when none was.                                       *)
NoFocusBefore == vue.hook.lastFocus = NullTime
SinceLastFocus == now - vue.hook.lastFocus

(* C27: a focus event calls revalidate for the key of the hook, and        *)
(* becomes the last accepted one, if no focus event was accepted before or *)
(* more than focusThrottleInterval has passed since the last accepted one; *)
(* otherwise it calls nothing and the time of the last accepted one stays. *)
C27_FocusThrottled ==
  [][Focus =>
       IF NoFocusBefore \/ SinceLastFocus > vue.hook.options.focusThrottleInterval
         THEN /\ out'.trace # <<>>
              /\ out'.trace[1].op = "revalidate"
              /\ out'.trace[1].key = TheKey
              /\ vue'.hook.lastFocus = now
         ELSE /\ out'.trace = <<>>
              /\ out'.fetches = <<>>
              /\ elements' = elements
              /\ vue'.hook.lastFocus = vue.hook.lastFocus]_vars

(* With focusThrottleInterval 1, a focus event was accepted at time 0 and  *)
(* it is time 1: only the throttle keeps the next one from revalidating.   *)
C27_Witness ==
  /\ vue.hook.mounted
  /\ vue.hook.options.focusThrottleInterval = 1
  /\ vue.hook.lastFocus = 0
  /\ now = 1
  /\ ~has(State, TheKey)
  /\ out.trace = <<>>

----------------------------------------------------------------------------
(* Properties of the initial data (SpecInitial).                           *)

(* C28: a hook that starts with initialData set calls mutate(key,          *)
(* initialData, {revalidate: false}), and then fetches for the key if      *)
(* revalidateOnMount is true and calls no fetcher if it is false.          *)
C28_InitialDataWritten ==
  [][\A options \in InitialOptionSets :
       UseSWR(KeyString(TheKey), options) =>
         /\ out'.trace # <<>>
         /\ out'.trace[1] = Call("mutate", TheKey, options.initialData, FALSE, FALSE, 1)
         /\ IF vue'.hook.options.revalidateOnMount
              THEN out'.fetches = <<TheKey>>
              ELSE /\ out'.fetches = <<>>
                   /\ elements'[TheKey] # NoItem
                   /\ items'[elements'[TheKey]].data = options.initialData]_vars

----------------------------------------------------------------------------
(* Properties of mutate with a function (SpecMutate).                      *)

(* This step is mutate("k1", f, {revalidate: reval}), called by a client.  *)
MutatesWith(f, reval) ==
  /\ out'.trace # <<>>
  /\ out'.trace[1] = Call("mutate", TheKey, FnValue(f), reval, FALSE, 1)

(* The value the store holds under "k1" when it is concrete, else null. *)
CachedOrNull ==
  IF elements[TheKey] # NoItem /\ ~IsPromise(items[elements[TheKey]].data)
    THEN items[elements[TheKey]].data
    ELSE Null

(* prev => prev + 1 *)
Incremented(prev) == IF prev = Null THEN Val(1) ELSE Val(prev.v + 1)

(* C29 as stated: mutate(k, f) calls f once, within the call, with the     *)
(* cached value of k or with null, and the store then holds f's result.    *)
C29_Original ==
  [][\A reval \in BOOLEAN :
       MutatesWith(FnInc, reval) =>
         /\ out'.fnCalls = <<[key |-> TheKey, fn |-> FnInc, arg |-> CachedOrNull]>>
         /\ elements'[TheKey] # NoItem
         /\ items'[elements'[TheKey]].data = Incremented(CachedOrNull)]_vars

(* C29 amended: mutate(k, f) calls f once, within the call, with the       *)
(* cached value of k when k has an entry whose data is concrete and with   *)
(* null when k has no entry or a pending one; called with {revalidate:     *)
(* false}, the store then holds f's result.                                *)
C29_FunctionCalledOnce ==
  [][\A reval \in BOOLEAN :
       MutatesWith(FnInc, reval) =>
         /\ out'.fnCalls = <<[key |-> TheKey, fn |-> FnInc, arg |-> CachedOrNull]>>
         /\ ~reval =>
              /\ elements'[TheKey] # NoItem
              /\ items'[elements'[TheKey]].data = Incremented(CachedOrNull)]_vars

(* mutate("k1", prev => prev + 1, {revalidate: false}) has just returned,  *)
(* called while a revalidation fetch for "k1" was in flight: the function  *)
(* was called with null and the store holds 1.                             *)
C29_Witness ==
  /\ out.trace = <<Call("mutate", TheKey, FnValue(FnInc), FALSE, FALSE, 1)>>
  /\ out.fnCalls = <<[key |-> TheKey, fn |-> FnInc, arg |-> Null]>>
  /\ elements[TheKey] # NoItem
  /\ items[elements[TheKey]].data = Val(1)
  /\ \E p \in 1..Len(promises) :
       promises[p].kind = "fetch" /\ promises[p].status = "pending"

----------------------------------------------------------------------------
(* Properties of item identity (SpecIdentity).                             *)

(* This step ran the continuation of an item with a defined value. *)
SettlesToValue ==
  /\ out'.ran # <<>>
  /\ out'.ran[1].detail # Undefined
  /\ out'.ran[1].detail # Null

(* Every data event a settlement dispatched in this step follows the write *)
(* of its value to the item: no subscriber is told a value for an item    *)
(* whose data is pending.                                                  *)
ToldAfterWrite ==
  \A n \in 1..Len(out'.events) :
    out'.events[n].src # NoItem =>
      /\ \E w \in 1..Len(out'.writes) :
           out'.writes[w] = <<out'.events[n].src, out'.events[n].detail>>
      /\ out'.events[n].src \in LiveItems(State') =>
           ~isResolving(items'[out'.events[n].src])

(* The continuation writes the value to the data field of the item it was  *)
(* attached for, the object itself, and to nothing else.                   *)
SameObjectWritten ==
  SettlesToValue =>
    /\ out'.writes = <<<<out'.ran[1].item, out'.ran[1].detail>>>>
    /\ out'.ran[1].item \in LiveItems(State') =>
         items'[out'.ran[1].item] =
           [items[out'.ran[1].item] EXCEPT !.data = out'.ran[1].detail]

----------------------------------------------------------------------------
(* Properties of two cache instances (SpecTwoCaches).                      *)

(* has(key) and get(key) of the first and of the second instance give in   *)
(* the next state what they give now.                                      *)
FirstReadsSame ==
  /\ elements' = elements
  /\ \A k \in Keys : elements[k] # NoItem => items'[elements[k]] = items[elements[k]]
SecondReadsSame ==
  /\ second'.elements = second.elements
  /\ \A k \in Keys :
       second.elements[k] # NoItem =>
         items'[second.elements[k]] = items[second.elements[k]]

(* No event of this step was delivered to the callback cb. *)
NotCalled(cb) == \A n \in 1..Len(out'.events) : cb \notin out'.events[n].to

(* C31: two cache instances share no mutable state: set, remove, clear,    *)
(* subscribe and broadcast on one, and the settlements of the values set   *)
(* on it, never change what has and get of the other return and never     *)
(* call a callback subscribed on the other, even for the same key string.  *)
C31_InstancesIndependent ==
  [][ /\ FirstStep => (SecondReadsSame /\ second'.event = second.event /\ NotCalled("c2"))
      /\ SecondStep => (FirstReadsSame /\ subs' = subs /\ NotCalled("c1"))]_vars

(* Both instances hold an entry under "k1" and have a subscriber of "k1",  *)
(* and the first has just broadcast on "k1": only "c1" was called.         *)
C31_Witness ==
  /\ elements["k1"] # NoItem
  /\ second.elements["k1"] # NoItem
  /\ elements["k1"] # second.elements["k1"]
  /\ <<"k1", "c2">> \in second.event
  /\ out.trace # <<>>
  /\ out.trace[1].op = "broadcast"
  /\ Len(out.events) = 1
  /\ out.events[1].key = "k1"
  /\ out.events[1].to = {"c1"}

----------------------------------------------------------------------------
(* Properties of the optimistic write (SpecNotify).                        *)

(* This step is mutate("k1", v) with a literal v and the default options. *)
MutatesOptimistically(v) ==
  /\ out'.trace # <<>>
  /\ out'.trace[1] = Call("mutate", TheKey, v, DefaultMutateRevalidate, FALSE, 1)

(* This step delivered one data event, with payload v, to the subscribers  *)
(* of "k1".                                                                *)
Delivers(v) ==
  /\ Len(out'.events) = 1
  /\ out'.events[1].chan = "data"
  /\ out'.events[1].key = TheKey
  /\ out'.events[1].detail = v
  /\ out'.events[1].to = Listeners(subs, TheKey)

(* C32: mutate(k, v) with a literal v and the default options delivers     *)
(* nothing itself: it queues the continuation of v and stores the pending  *)
(* item of a fetch, made right after the item of v.  The continuation of v *)
(* delivers v; when the fetch has resolved to w its continuation delivers  *)
(* w, after the one of v has run, and the store, if no later call replaced *)
(* the item of the fetch, holds w.                                         *)
C32_OptimisticThenFetched ==
  [][ /\ \A v \in Values :
          MutatesOptimistically(v) =>
            /\ out'.events = <<>>
            /\ out'.fetches = <<TheKey>>
            /\ jobs' = Append(jobs, Job(TheKey, Len(items) + 1, v, 0))
            /\ elements'[TheKey] = Len(items) + 2
            /\ isResolving(items'[Len(items) + 2])
      /\ \A v \in Values :
          (out'.ran # <<>> /\ out'.ran[1].detail = v) =>
            /\ out'.ran[1] = Head(jobs)
            /\ Delivers(v)
            /\ out'.ran[1].p # 0 =>
                 /\ (out'.ran[1].item - 1) \in hist.ran
                 /\ elements[TheKey] = out'.ran[1].item =>
                      /\ elements'[TheKey] = out'.ran[1].item
                      /\ items'[out'.ran[1].item].data = v]_vars

(* mutate("k1", 2) was called with the default options and "c1"            *)
(* subscribed; the continuation of 2 ran, the fetch resolved to 1, and its *)
(* continuation has just delivered 1 to "c1": the store holds 1.           *)
C32_Witness ==
  /\ out.ran # <<>>
  /\ out.ran[1].p # 0
  /\ out.ran[1].detail = Val(1)
  /\ out.ran[1].item = 2
  /\ 1 \in hist.ran
  /\ Len(out.events) = 1
  /\ out.events[1].detail = Val(1)
  /\ "c1" \in out.events[1].to
  /\ elements[TheKey] = 2
  /\ items[2].data = Val(1)

----------------------------------------------------------------------------
(* Properties of the store and its subscribers at rest (SpecRest).         *)

(* No fetch is in flight and no settlement continuation is pending. *)
AtRest ==
  /\ jobs = <<>>
  /\ \A p \in 1..Len(promises) : promises[p].status # "pending"

(* The hook subscribed to "k1" before the first write of "k1"; its data is *)
(* the payload of the last data event delivered to it.                     *)
LastPayload == vue.hook.data

(* C33 as stated: at rest, for a key present in the store, the payload of  *)
(* the last data event delivered to a callback subscribed since before the *)
(* first write of the key equals get(key).data.                            *)
C33_Original ==
  (AtRest /\ vue.hook.mounted /\ has(State, TheKey)) =>
    LastPayload = get(State, TheKey).data

(* C33 amended: ... for a key present in the store that was never written  *)
(* while an earlier pending value of the key had not settled ...           *)
C33_AgreeAtRest ==
  (AtRest /\ vue.hook.mounted /\ has(State, TheKey) /\ ~vue.raced) =>
    LastPayload = get(State, TheKey).data

(* At rest after three writes of "k1", none of them made while a fetch was *)
(* in flight: the store and the hook hold the value the last fetch gave.   *)
C33_Witness ==
  /\ AtRest
  /\ vue.hook.mounted
  /\ ~vue.raced
  /\ Len(items) = 3
  /\ has(State, TheKey)
  /\ get(State, TheKey).data = Val(1)
  /\ LastPayload = Val(1)

----------------------------------------------------------------------------
(* Properties of deduplication over time (SpecDedup).                      *)

FetchesInFlight(key) ==
  {p \in 1..Len(promises) :
     /\ promises[p].kind = "fetch"
     /\ promises[p].status = "pending"
     /\ promises[p].key = key}

(* The pending entry the store holds has not waited for its value for     *)
(* longer than the dedupingInterval of the call that issued its fetch: the *)
(* fetch settles, and the continuation writes the value, within it.        *)
WithinWindow ==
  (has(State, TheKey) /\ isResolving(get(State, TheKey))) =>
    now <= get(State, TheKey).expiresAt

(* C34 as stated: when the only operations on a key are revalidate calls   *)
(* with force=false and one fixed dedupingInterval, at most one fetch for  *)
(* the key is in flight at any time, however long a fetch takes to settle. *)
C34_Original == Cardinality(FetchesInFlight(TheKey)) <= 1

(* C34 amended: ... at most one fetch for the key is in flight at any      *)
(* time, as long as every fetch has settled and its value has been written *)
(* to the store no later than dedupingInterval after the call that issued  *)
(* it.                                                                     *)
C34_OneInFlightWithinWindow == []WithinWindow => []C34_Original

(* A revalidate call was deduplicated: a fetch is in flight, within its    *)
(* window, and the call issued no fetch and left the store as it was.      *)
C34_Witness ==
  /\ Cardinality(FetchesInFlight(TheKey)) = 1
  /\ WithinWindow
  /\ now = MaxTime
  /\ Len(out.trace) = 1
  /\ out.trace[1].op = "revalidate"
  /\ out.fetches = <<>>
  /\ has(State, TheKey)
  /\ isResolving(get(State, TheKey))

----------------------------------------------------------------------------
(* Properties of a mutation next to earlier fetches (SpecRevalidate).      *)

(* The entry of "k1" is the item of the last mutate(k, v, {revalidate:    *)
(* false}) with the literal v, and no mutate, set, remove, clear or         *)
(* fetching revalidate of "k1" was called since.                            *)
MutationStored ==
  /\ hist.mut[TheKey].item # NoItem
  /\ hist.mut[TheKey].literal
  /\ elements[TheKey] = hist.mut[TheKey].item

(* The continuation that runs in this step belongs to a fetch of "k1"      *)
(* that was issued before that mutate.                                     *)
SettlesEarlierFetch ==
  /\ MutationStored
  /\ RunJob
  /\ Head(jobs).p # 0
  /\ promises[Head(jobs).p].kind = "fetch"
  /\ Head(jobs).key = TheKey

MutationKept ==
  /\ elements'[TheKey] = elements[TheKey]
  /\ items'[elements'[TheKey]].data = Val(MaxValue)

(* C35 as stated: a value written by mutate(k, v, {revalidate: false})     *)
(* stays in the store until the next call of mutate, set, remove, clear or *)
(* a fetching revalidate on k: has(k) stays true and get(k).data = v       *)
(* across the settlement, success or failure, of any fetch for k issued    *)
(* before the mutate.                                                      *)
C35_Original ==
  [][ /\ SettlesEarlierFetch => MutationKept
      /\ \A p \in 1..Len(promises), outcome \in FetchOutcomes :
           (MutationStored /\ FetchSettle(p, outcome)) => MutationKept ]_vars

(* C35 amended: ... across the settlement to a defined value of any fetch  *)
(* for k issued before the mutate; when such a fetch fails or yields       *)
(* undefined or null, its continuation removes the entry of k.             *)
C35_MutationOutlivesDefined ==
  [][ /\ SettlesEarlierFetch =>
           IF IsDefined(Head(jobs).detail)
             THEN MutationKept
             ELSE ~has([elements |-> elements'], TheKey)
      /\ \A p \in 1..Len(promises), outcome \in FetchOutcomes :
           (MutationStored /\ FetchSettle(p, outcome)) => MutationKept ]_vars

(* The fetch issued before the mutate has settled to 1 and its             *)
(* continuation has run: the store still holds the literal of the mutate.  *)
C35_Witness ==
  /\ out.ran # <<>>
  /\ out.ran[1].p # 0
  /\ out.ran[1].detail = Val(1)
  /\ out.ran[1].key = TheKey
  /\ MutationStored
  /\ elements[TheKey] # out.ran[1].item
  /\ has(State, TheKey)
  /\ get(State, TheKey).data = Val(MaxValue)

----------------------------------------------------------------------------
(* Properties of the keys side by side (SpecFrame).                        *)

(* The store keeps the item it holds under the key. *)
SameEntry(key) == elements'[key] = elements[key]

(* The item stored under the key is as it was. *)
SameData(key) ==
  has(State, key) => items'[elements[key]] = items[elements[key]]

(* No event of the step was delivered to the callback. *)
NotDelivered(cb) ==
  \A i \in 1..Len(out'.events) : cb \notin out'.events[i].to

(* The continuation that runs writes the item that "k2" holds as well. *)
WritesSharedItem ==
  /\ jobs # <<>>
  /\ Head(jobs).key = TheKey
  /\ Head(jobs).item = elements[OtherKey]

(* C36 as stated: set, mutate, revalidate, remove and the settlement of a  *)
(* fetch for "k1" never add, delete or change the store entry of "k2" and  *)
(* never deliver a data or error event to a callback subscribed only to    *)
(* "k2".                                                                   *)
C36_Original ==
  [][KeyStep(TheKey) =>
       /\ SameEntry(OtherKey)
       /\ SameData(OtherKey)
       /\ NotDelivered("c2")]_vars

(* C36 amended: ... never add, delete or replace the store entry of "k2",  *)
(* change the data of that entry only when the settlement writes a         *)
(* CacheItem that is stored under both keys, and never deliver a data or   *)
(* error event to a callback subscribed only to "k2".                      *)
C36_KeysDoNotInterfere ==
  [][KeyStep(TheKey) =>
       /\ SameEntry(OtherKey)
       /\ SameData(OtherKey) \/ WritesSharedItem
       /\ NotDelivered("c2")]_vars

(* "k2" holds 1 and "c2" listens to it; mutate("k1", v) has delivered v    *)
(* to "c1", and "k2" holds 1 still.                                        *)
C36_Witness ==
  /\ <<OtherKey, "c2">> \in subs
  /\ <<TheKey, "c1">> \in subs
  /\ has(State, OtherKey)
  /\ get(State, OtherKey).data = Val(1)
  /\ has(State, TheKey)
  /\ elements[TheKey] # elements[OtherKey]
  /\ out.ran # <<>>
  /\ out.ran[1].key = TheKey
  /\ Len(out.events) = 1
  /\ out.events[1].to = {"c1"}
  /\ out.events[1].detail = Val(MaxValue)

----------------------------------------------------------------------------
(* Properties of the initial data next to a cached entry (SpecInitial).    *)

(* C37: starting a hook with initialData on a key that has a cached entry, *)
(* even a fresh one, replaces the entry with the initial data and a null   *)
(* expiration (the fetch of revalidateOnMount then stores its pending      *)
(* item), and the continuation of that write delivers the initial data to  *)
(* the subscribers of the key.                                             *)
C37_InitialDataOverwrites ==
  [][\A options \in InitialOptionSets :
       (has(State, TheKey) /\ UseSWR(KeyString(TheKey), options)) =>
         /\ out'.trace # <<>>
         /\ out'.trace[1] = Call("mutate", TheKey, options.initialData, FALSE, FALSE, 1)
         /\ \E n \in 1..Len(jobs') :
              jobs'[n] = Job(TheKey, Len(items) + 1, options.initialData, 0)
         /\ ~vue'.hook.options.revalidateOnMount =>
              /\ elements'[TheKey] = Len(items) + 1
              /\ get([elements |-> elements', items |-> items'], TheKey)
                   = CacheItem(options.initialData, NullDate)]_vars

----------------------------------------------------------------------------
(* Properties of mutate with undefined or null (SpecSilent).               *)

(* The continuation of an item whose data is undefined or null, or the     *)
(* item stored again, is still in the microtask queue.                     *)
ContinuationQueued(js, key, item) ==
  \E n \in 1..Len(js) :
    /\ js[n].key = key
    /\ js[n].item = item
    /\ js[n].detail \in NoValues

(* A concrete entry whose data is undefined or null is in the store only   *)
(* until its continuation runs.                                            *)
NoValueNotKept(s) ==
  (has(s, TheKey) /\ get(s, TheKey).data \in NoValues) =>
    ContinuationQueued(s.jobs, TheKey, s.elements[TheKey])

(* C38: mutate(k, undefined, {revalidate: false}) and mutate(k, null,      *)
(* {revalidate: false}) are a silent removal: the call delivers no event,  *)
(* and once its continuation has run has(k) is false and no data event,    *)
(* not even one with the payload undefined, was delivered to the           *)
(* subscribers of k; the store keeps no concrete entry whose data is       *)
(* undefined or null once the continuation of that entry has run.          *)
C38_SilentRemoval ==
  [][ /\ \A value \in NoValues :
           MutateCall(TheKey, value, FALSE, DefaultForce, DefaultDedupingInterval) =>
             /\ out'.events = <<>>
             /\ jobs' = Append(jobs, Job(TheKey, Len(items) + 1, value, 0))
      /\ (RunJob /\ Head(jobs).detail \in NoValues) =>
           /\ ~has([elements |-> elements'], TheKey)
           /\ out'.events = <<>>
           /\ out'.writes = <<>>
      /\ NoValueNotKept([elements |-> elements', items |-> items', jobs |-> jobs'])
    ]_vars

(* "c1" listens to "k1", which held a value; mutate("k1", null) was       *)
(* called and its continuation has run: the key is gone, and nothing was   *)
(* delivered.                                                              *)
C38_Witness ==
  /\ <<TheKey, "c1">> \in subs
  /\ Len(items) = 2
  /\ out.ran # <<>>
  /\ out.ran[1].detail = Null
  /\ out.ran[1].item = 2
  /\ out.events = <<>>
  /\ ~has(State, TheKey)
  /\ jobs = <<>>

====
